---- MODULE Spec2Model ----
(***************************************************************************)
(* Website Design Evaluator (MAB1144-Python/prueba_test_1).                *)
(*                                                                         *)
(* The module models, from the Python sources under src/:                  *)
(*   - WebsiteEvaluator._calculate_final_score     (SpecScore)             *)
(*   - WebsiteEvaluator.get_score_category and                             *)
(*     ReportGenerator._get_score_category         (SpecCat)               *)
(*   - validate_url over urllib's urlparse         (SpecUrl)               *)
(*   - DesignAnalyzer.analyze_design and its analyzers (SpecAnalyze)       *)
(*   - WebsiteEvaluator.evaluate_website / batch_evaluate (Spec)           *)
(*                                                                         *)
(* Numbers.  Scores are integers (points).  Weights are integers in        *)
(* thousandths (0.25 is 250).  A final score, and every score handed to a  *)
(* categoriser, is an integer in hundredths (80.75 is 8075): the values a  *)
(* float rounded to two decimals can take.  Range bounds of the            *)
(* configuration are in hundredths as well (90 is 9000).                   *)
(***************************************************************************)
EXTENDS Integers, Sequences, FiniteSets, TLC

VARIABLES
    \* --- _calculate_final_score -------------------------------------------
    weights,            \* config['scoring_weights'], in file order
    analysis_results,   \* category -> [score |-> points]
    final_score,        \* the value returned, in hundredths
    pcScore,            \* "idle" | "ready" | "done"
    \* --- get_score_category / _get_score_category -------------------------
    score_ranges,       \* config['score_ranges'], in file order
    score,              \* the argument: [kind |-> "none" | "text" | "numtext" | "num", v]
    category,           \* what WebsiteEvaluator.get_score_category did: [raised, name]
    report_category,    \* what ReportGenerator._get_score_category did: [raised, name]
    pcCat,              \* the calls made so far, of "evaluator" and "report"; {"idle"} when unused
    \* --- validate_url ------------------------------------------------------
    url,                \* the argument, a sequence of characters
    valid,              \* the value returned
    pcUrl,              \* "idle" | "ready" | "done"
    \* --- analyze_design ----------------------------------------------------
    screenshot,         \* the file at screenshot_path
    response,           \* what the AI classifier does when asked
    analysis,           \* [raised |-> BOOLEAN, results |-> ...]
    pcAnalyze,          \* "idle" | "ready" | "done"
    \* --- evaluate_website / batch_evaluate ---------------------------------
    urls,               \* the list handed to batch_evaluate
    save_to_cloud,      \* flag
    save_to_sheets,     \* flag
    results,            \* the list batch_evaluate is building
    trail,              \* collaborator invocations so far: <<url index, collaborator>>
    outcomes,           \* what the collaborators did for each URL processed
    driver,             \* ScreenshotCapture.driver: "none" | "open"
    pcBatch,            \* "idle" | "running" | "returned"
    \* --- _find_sections ----------------------------------------------------
    vertical_profile,   \* the profile argument, a sequence of numbers
    section_threshold,  \* the threshold argument
    found_sections,     \* the list returned: <<start, end>> pairs, 0-based
    pcSections,         \* "idle" | "ready" | "done"
    \* --- analyze_design, step by step --------------------------------------
    step_screenshot,    \* the file at screenshot_path
    step_response,      \* what the AI classifier does when asked
    step_results,       \* step -> what the step produced, for the steps run so far
    step_order,         \* the steps run so far, in the order they ran
    step_joined,        \* what the analysis hands back once the steps are joined
    pcSteps,            \* "idle" | "load" | "steps" | "done"
    \* --- ScreenshotCapture -------------------------------------------------
    cap_driver,         \* self.driver: "none" | "open"
    browsers,           \* the browsers this object started and has not quit
    cap_log,            \* the captures and closes so far, with what each did
    pcCapture,          \* "idle" | "running"
    \* --- _prepare_row_data -------------------------------------------------
    evaluation_data,    \* the argument: a dict, as a function over the keys it has
    row_data,           \* what _prepare_row_data did: [raised, row]
    pcRow,              \* "idle" | "ready" | "done"
    \* --- two evaluations with one AI answer --------------------------------
    pair_files,         \* the screenshots of the two evaluations
    pair_response,      \* what the AI classifier does in both
    pair_weights,       \* config['scoring_weights'] of both
    pair_scores,        \* what analysis and _calculate_final_score gave in each
    pcPair,             \* "idle" | "ready" | "done"
    \* --- main --------------------------------------------------------------
    args,               \* the command line and the files it names
    evaluator,          \* the local evaluator is bound
    main_driver,        \* evaluator.screenshot_capture.driver: "none" | "open"
    valid_urls,         \* the URLs of the batch file that pass validate_url
    main_results,       \* the results of the evaluations made so far
    tally,              \* what print_batch_results counted
    interrupted,        \* a KeyboardInterrupt was raised inside the try
    close_calls,        \* the calls of close_driver made by main
    pending,            \* the value of the return statement being executed, -1 for none
    exit_code,          \* the value main returned or the code of SystemExit, -1 for none
    pcMain              \* "idle" | "start" | "init" | "dispatch" | "single" | "batch" |
                        \* "finally" | "returned" | "exited"

scoreVars   == <<weights, analysis_results, final_score, pcScore>>
catVars     == <<score_ranges, score, category, report_category, pcCat>>
urlVars     == <<url, valid, pcUrl>>
analyzeVars == <<screenshot, response, analysis, pcAnalyze>>
batchVars   == <<urls, save_to_cloud, save_to_sheets, results, trail, outcomes,
                 driver, pcBatch>>
sectionVars == <<vertical_profile, section_threshold, found_sections, pcSections>>
stepVars    == <<step_screenshot, step_response, step_results, step_order,
                 step_joined, pcSteps>>
captureVars == <<cap_driver, browsers, cap_log, pcCapture>>
rowVars == <<evaluation_data, row_data, pcRow>>
pairVars == <<pair_files, pair_response, pair_weights, pair_scores, pcPair>>
mainVars == <<args, evaluator, main_driver, valid_urls, main_results, tally, interrupted, close_calls, pending, exit_code, pcMain>>
vars        == <<scoreVars, catVars, urlVars, analyzeVars, batchVars,
                 sectionVars, stepVars, captureVars, rowVars, pairVars,
                 mainVars>>

\* The five fixed design dimensions (design_analyzer.py, the keys of `results`).
Categories == <<"typography", "color", "layout", "usability", "modern_design">>

CategorySet == {Categories[i] : i \in 1..Len(Categories)}

Abs(x) == IF x < 0 THEN -x ELSE x

Min(a, b) == IF a <= b THEN a ELSE b

Max(a, b) == IF a >= b THEN a ELSE b

(***************************************************************************)
(* The idle values of each part: a specification that exercises one part   *)
(* leaves the others in these states.                                      *)
(***************************************************************************)
ScoreIdle ==
    /\ weights = <<>>
    /\ analysis_results = <<>>
    /\ final_score = 0
    /\ pcScore = "idle"

CatIdle ==
    /\ score_ranges = <<>>
    /\ score = [kind |-> "none", v |-> 0]
    /\ category = [raised |-> FALSE, name |-> ""]
    /\ report_category = [raised |-> FALSE, name |-> ""]
    /\ pcCat = {"idle"}

UrlIdle ==
    /\ url = <<>>
    /\ valid = FALSE
    /\ pcUrl = "idle"

AnalyzeIdle ==
    /\ screenshot = [kind |-> "missing"]
    /\ response = [kind |-> "request_error"]
    /\ analysis = [raised |-> FALSE]
    /\ pcAnalyze = "idle"

BatchIdle ==
    /\ urls = <<>>
    /\ save_to_cloud = FALSE
    /\ save_to_sheets = FALSE
    /\ results = <<>>
    /\ trail = <<>>
    /\ outcomes = <<>>
    /\ driver = "none"
    /\ pcBatch = "idle"

SectionsIdle ==
    /\ vertical_profile = <<>>
    /\ section_threshold = 0
    /\ found_sections = <<>>
    /\ pcSections = "idle"

StepsIdle ==
    /\ step_screenshot = [kind |-> "missing"]
    /\ step_response = [kind |-> "request_error"]
    /\ step_results = <<>>
    /\ step_order = <<>>
    /\ step_joined = [raised |-> FALSE]
    /\ pcSteps = "idle"

CaptureIdle ==
    /\ cap_driver = "none"
    /\ browsers = 0
    /\ cap_log = <<>>
    /\ pcCapture = "idle"

RowIdle ==
    /\ evaluation_data = <<>>
    /\ row_data = [raised |-> FALSE, row |-> <<>>]
    /\ pcRow = "idle"

PairIdle ==
    /\ pair_files = <<>>
    /\ pair_response = [kind |-> "request_error"]
    /\ pair_weights = <<>>
    /\ pair_scores = <<>>
    /\ pcPair = "idle"

MainIdle ==
    /\ args = [url |-> <<>>, batch |-> [kind |-> "none", lines |-> <<>>],
               config |-> "ok", no_cloud |-> FALSE, no_sheets |-> FALSE]
    /\ evaluator = FALSE
    /\ main_driver = "none"
    /\ valid_urls = <<>>
    /\ main_results = <<>>
    /\ tally = [successful |-> 0, failed |-> 0, total |-> 0]
    /\ interrupted = FALSE
    /\ close_calls = 0
    /\ pending = -1
    /\ exit_code = -1
    /\ pcMain = "idle"

(***************************************************************************)
(* WebsiteEvaluator._calculate_final_score                                 *)
(***************************************************************************)

\* Python's round(x, 2) of a value given in thousandths, result in hundredths.
\* A value whose third decimal is not 5 goes to the nearest hundredth.  The
\* third decimal is 5 here only for sums of eighths (weights 0.125), which a
\* binary float holds exactly, and there round() rounds the half to even.
round2(t) ==
    LET q == t \div 10
        r == t % 10
    IN  IF r < 5 THEN q
        ELSE IF r > 5 THEN q + 1
        ELSE IF q % 2 = 0 THEN q ELSE q + 1

\* The loop body of _calculate_final_score, over weights.items() from entry i
\* on: total_score += category_score * weight for the categories that are in
\* analysis_results.  Points times thousandths: the sum is in thousandths.
RECURSIVE total_score(_, _, _)
total_score(w, ar, i) ==
    IF i > Len(w) THEN 0
    ELSE (IF w[i].category \in DOMAIN ar
          THEN ar[w[i].category].score * w[i].weight
          ELSE 0)
         + total_score(w, ar, i + 1)

\* Mutant: the sum cut to two decimals instead of rounded.
calculate_final_score_truncated(w, ar) == total_score(w, ar, 1) \div 10

calculate_final_score(w, ar) == round2(total_score(w, ar, 1))

\* ---- inputs ---------------------------------------------------------------

\* The weights of tests/test_evaluator.py setUp, in thousandths.
TestWeights ==
    << [category |-> "typography",    weight |-> 250],
       [category |-> "color",         weight |-> 200],
       [category |-> "layout",        weight |-> 250],
       [category |-> "usability",     weight |-> 200],
       [category |-> "modern_design", weight |-> 100] >>

\* Weight mappings a configuration file can hold: nothing validates them.
WeightConfigs ==
    { TestWeights,
      \* weights that sum to 1.5
      << [category |-> "typography", weight |-> 500],
         [category |-> "color",      weight |-> 500],
         [category |-> "layout",     weight |-> 500] >>,
      \* eighths
      << [category |-> "typography",    weight |-> 125],
         [category |-> "color",         weight |-> 125],
         [category |-> "layout",        weight |-> 250],
         [category |-> "usability",     weight |-> 250],
         [category |-> "modern_design", weight |-> 250] >>,
      \* thirds
      << [category |-> "typography", weight |-> 333],
         [category |-> "color",      weight |-> 333],
         [category |-> "layout",     weight |-> 334] >>,
      \* a category no analysis result has
      << [category |-> "typography",    weight |-> 300],
         [category |-> "accessibility", weight |-> 400],
         [category |-> "color",         weight |-> 300] >>,
      <<>> }

ScoreValues == {0, 72, 85, 100}

\* The analysis result of test_calculate_final_score.
TestAnalysis ==
    [c \in CategorySet |->
        [score |-> CASE c = "typography"    -> 80
                     [] c = "color"         -> 90
                     [] c = "layout"        -> 70
                     [] c = "usability"     -> 85
                     [] c = "modern_design" -> 75]]

\* Analysis results: any subset of the categories, each with a score.
AnalysisInputs ==
    UNION { [D -> {[score |-> s] : s \in ScoreValues}] : D \in SUBSET CategorySet }
    \cup {TestAnalysis}

\* The weighted sum of the model is the float sum of the code except on a
\* decimal tie that a binary float does not hold exactly (28.305): those
\* inputs are left out, the float's last bit decides them.
FloatExact(w, ar) ==
    \/ total_score(w, ar, 1) % 10 # 5
    \/ \A i \in 1..Len(w) : w[i].weight % 125 = 0

InitScore ==
    /\ weights \in WeightConfigs
    /\ analysis_results \in AnalysisInputs
    /\ FloatExact(weights, analysis_results)
    /\ final_score = 0
    /\ pcScore = "ready"
    /\ CatIdle /\ UrlIdle /\ AnalyzeIdle /\ BatchIdle /\ SectionsIdle /\ StepsIdle /\ CaptureIdle /\ RowIdle /\ PairIdle /\ MainIdle

CalculateFinalScore ==
    /\ pcScore = "ready"
    /\ final_score' = calculate_final_score(weights, analysis_results)
    /\ pcScore' = "done"
    /\ UNCHANGED <<weights, analysis_results>>
    /\ UNCHANGED <<catVars, urlVars, analyzeVars, batchVars, sectionVars, stepVars, captureVars, rowVars, pairVars, mainVars>>

NextScore == CalculateFinalScore

SpecScore == InitScore /\ [][NextScore]_vars

\* ---- C1 -------------------------------------------------------------------

WeightedCategories(w) == {w[i].category : i \in 1..Len(w)}

WeightOf(w, c) == w[CHOOSE i \in 1..Len(w) : w[i].category = c].weight

RECURSIVE SumOver(_, _, _)
SumOver(S, w, ar) ==
    IF S = {} THEN 0
    ELSE LET c == CHOOSE x \in S : TRUE
         IN  ar[c].score * WeightOf(w, c) + SumOver(S \ {c}, w, ar)

\* The sum of score x weight over exactly the categories present in both
\* mappings, in thousandths, not renormalised.
ExactWeightedSum ==
    SumOver(WeightedCategories(weights) \cap DOMAIN analysis_results,
            weights, analysis_results)

\* The returned value is a hundredth nearest to the exact sum.
RoundedWeightedSum == Abs(10 * final_score - ExactWeightedSum) <= 5

IsTestExample == weights = TestWeights /\ analysis_results = TestAnalysis

\* C1 as amended: _calculate_final_score returns the sum of score x weight
\* over exactly the categories present in both mappings, rounded to 2
\* decimals, not renormalised; scores 80/90/70/85/75 with weights
\* 0.25/0.20/0.25/0.20/0.10 give 80.0.
C1_FinalScoreIsRoundedWeightedSum ==
    pcScore = "done" =>
        /\ RoundedWeightedSum
        /\ IsTestExample => final_score = 8000

\* C1 as claimed: the same, with the example giving 80.75.
C1_ExampleGives8075 ==
    pcScore = "done" =>
        /\ RoundedWeightedSum
        /\ IsTestExample => final_score = 8075

\* C1 witness: the test's example has been scored, and gave 80.0.
C1_Witness == pcScore = "done" /\ IsTestExample /\ final_score = 8000

\* C1 witness of the skipped categories: a weighted category the analysis
\* lacks and an analysed category without weight, and a score was returned.
C1_WitnessSkipped ==
    /\ pcScore = "done"
    /\ WeightedCategories(weights) \ DOMAIN analysis_results # {}
    /\ DOMAIN analysis_results \ WeightedCategories(weights) # {}
    /\ final_score > 0

(***************************************************************************)
(* WebsiteEvaluator.get_score_category, ReportGenerator._get_score_category *)
(***************************************************************************)

\* A score argument.  "num" is an int or float, "numtext" a str that float()
\* parses ("85"), "text" a str that it does not ("abc"), "none" is None.
\* v is the number, in hundredths.
Num(v)     == [kind |-> "num", v |-> v]

NumText(v) == [kind |-> "numtext", v |-> v]

NoneScore  == [kind |-> "none", v |-> 0]

TextScore  == [kind |-> "text", v |-> 0]

\* float(x): TypeError for None, ValueError for a str that is no number.
to_float(s) ==
    IF s.kind \in {"num", "numtext"}
    THEN [raised |-> FALSE, v |-> s.v]
    ELSE [raised |-> TRUE, v |-> 0]

\* isinstance(score, (int, float))
is_int_or_float(s) == s.kind = "num"

\* range_data['min'] <= score <= range_data['max']
in_range(r, v) == r.min <= v /\ v <= r.max

\* for category, range_data in ranges.items(): ... return category; after
\* the loop, the fallback.
RECURSIVE scan_ranges(_, _, _, _)
scan_ranges(ranges, v, i, fallback) ==
    IF i > Len(ranges) THEN fallback
    ELSE IF in_range(ranges[i], v) THEN ranges[i].name
    ELSE scan_ranges(ranges, v, i + 1, fallback)

\* The score website_evaluator.py:203 and :208 substitute, 50.
SubstituteScore == 5000

\* website_evaluator.py:210, max(0, min(100, float(score)))
clamp(v) == Max(0, Min(10000, v))

\* Mutant: the upper bound of a range excluded.
RECURSIVE scan_ranges_exclusive(_, _, _, _)
scan_ranges_exclusive(ranges, v, i, fallback) ==
    IF i > Len(ranges) THEN fallback
    ELSE IF ranges[i].min <= v /\ v < ranges[i].max THEN ranges[i].name
    ELSE scan_ranges_exclusive(ranges, v, i + 1, fallback)

get_score_category_exclusive(ranges, s) ==
    LET s1 == IF s.kind = "none" THEN Num(SubstituteScore) ELSE s
        s2 == IF ~is_int_or_float(s1) THEN Num(SubstituteScore) ELSE s1
        f  == to_float(s2)
    IN  IF f.raised THEN [raised |-> TRUE, name |-> ""]
        ELSE [raised |-> FALSE,
              name |-> scan_ranges_exclusive(ranges, clamp(f.v), 1, "fair")]

\* Mutant: the clamp of line 210 left out.
get_score_category_unclamped(ranges, s) ==
    LET s1 == IF s.kind = "none" THEN Num(SubstituteScore) ELSE s
        s2 == IF ~is_int_or_float(s1) THEN Num(SubstituteScore) ELSE s1
        f  == to_float(s2)
    IN  IF f.raised THEN [raised |-> TRUE, name |-> ""]
        ELSE [raised |-> FALSE, name |-> scan_ranges(ranges, f.v, 1, "fair")]

\* WebsiteEvaluator.get_score_category
get_score_category(ranges, s) ==
    LET s1 == IF s.kind = "none" THEN Num(SubstituteScore) ELSE s
        s2 == IF ~is_int_or_float(s1) THEN Num(SubstituteScore) ELSE s1
        f  == to_float(s2)
    IN  IF f.raised THEN [raised |-> TRUE, name |-> ""]
        ELSE [raised |-> FALSE,
              name |-> scan_ranges(ranges, clamp(f.v), 1, "fair")]

\* ReportGenerator._get_score_category: the try block, whose ValueError and
\* TypeError handler returns 'poor'.
report_get_score_category(ranges, s) ==
    IF s.kind = "none" THEN [raised |-> FALSE, name |-> "poor"]
    ELSE LET f == to_float(s)
         IN  IF f.raised THEN [raised |-> FALSE, name |-> "poor"]
             ELSE IF f.v < 0 THEN [raised |-> FALSE, name |-> "poor"]
             ELSE IF f.v > 10000 THEN [raised |-> FALSE, name |-> "excellent"]
             ELSE [raised |-> FALSE, name |-> scan_ranges(ranges, f.v, 1, "poor")]

\* ---- inputs ---------------------------------------------------------------

Range(n, lo, hi) == [name |-> n, min |-> lo, max |-> hi]

\* score_ranges of tests/test_evaluator.py setUp.
TestRanges == << Range("excellent", 9000, 10000), Range("poor", 0, 5900) >>

\* score_ranges a configuration file can hold: nothing validates them.
RangeConfigs ==
    { TestRanges,
      \* five ranges with integer bounds
      << Range("excellent", 9000, 10000), Range("good", 8000, 8900),
         Range("average", 7000, 7900), Range("fair", 6000, 6900),
         Range("poor", 0, 5900) >>,
      \* ranges that share their boundaries
      << Range("excellent", 9000, 10000), Range("good", 7000, 9000),
         Range("fair", 5000, 7000), Range("poor", 0, 5000) >>,
      \* the same, listed upwards
      << Range("poor", 0, 5000), Range("fair", 5000, 7000),
         Range("good", 7000, 9000), Range("excellent", 9000, 10000) >>,
      \* other names
      << Range("high", 5000, 10000), Range("low", 0, 4900) >> }

\* Scores from -5.00 to 105.00 in steps of 0.50, and the other kinds.
ScoreInputs ==
    {Num(50 * k) : k \in -10..210}
    \cup {NumText(v) : v \in {-500, 5950, 8500, 15000}}
    \cup {NoneScore, TextScore}

InitCat ==
    /\ score_ranges \in RangeConfigs
    /\ score \in ScoreInputs
    /\ category = [raised |-> FALSE, name |-> ""]
    /\ report_category = [raised |-> FALSE, name |-> ""]
    /\ pcCat = {}
    /\ ScoreIdle /\ UrlIdle /\ AnalyzeIdle /\ BatchIdle /\ SectionsIdle /\ StepsIdle /\ CaptureIdle /\ RowIdle /\ PairIdle /\ MainIdle

GetScoreCategory ==
    /\ "idle" \notin pcCat
    /\ "evaluator" \notin pcCat
    /\ category' = get_score_category(score_ranges, score)
    /\ pcCat' = pcCat \cup {"evaluator"}
    /\ UNCHANGED <<score_ranges, score, report_category>>
    /\ UNCHANGED <<scoreVars, urlVars, analyzeVars, batchVars, sectionVars, stepVars, captureVars, rowVars, pairVars, mainVars>>

ReportGetScoreCategory ==
    /\ "idle" \notin pcCat
    /\ "report" \notin pcCat
    /\ report_category' = report_get_score_category(score_ranges, score)
    /\ pcCat' = pcCat \cup {"report"}
    /\ UNCHANGED <<score_ranges, score, category>>
    /\ UNCHANGED <<scoreVars, urlVars, analyzeVars, batchVars, sectionVars, stepVars, captureVars, rowVars, pairVars, mainVars>>

NextCat == GetScoreCategory \/ ReportGetScoreCategory

SpecCat == InitCat /\ [][NextCat]_vars

\* ---- C2 .. C5 ---------------------------------------------------------------

RangeNames(ranges) == {ranges[i].name : i \in 1..Len(ranges)}

Matching(ranges, v) == {i \in 1..Len(ranges) : ranges[i].min <= v /\ v <= ranges[i].max}

\* The first range, in the configuration's order, whose inclusive bounds hold v.
IsFirstMatch(ranges, v, n) ==
    \E i \in Matching(ranges, v) :
        /\ \A j \in Matching(ranges, v) : i <= j
        /\ ranges[i].name = n

EvaluatorDone == "evaluator" \in pcCat

ReportDone == "report" \in pcCat

InBounds == score.kind = "num" /\ 0 <= score.v /\ score.v <= 10000

\* C2: for a score in [0,100], get_score_category returns the first range,
\* in the configuration's order, whose inclusive bounds contain the score.
C2_FirstInclusiveRange ==
    (EvaluatorDone /\ InBounds /\ Matching(score_ranges, score.v) # {}) =>
        /\ ~category.raised
        /\ IsFirstMatch(score_ranges, score.v, category.name)

\* C2 witness: the endpoint 90 of excellent[90,100] gave 'excellent', with
\* the test's ranges.
C2_Witness ==
    /\ EvaluatorDone
    /\ score_ranges = TestRanges
    /\ score = Num(9000)
    /\ category.name = "excellent"

\* C2 witness of the order: a score two ranges hold went to the one listed
\* first.
C2_WitnessShared ==
    /\ EvaluatorDone /\ InBounds
    /\ Cardinality(Matching(score_ranges, score.v)) = 2
    /\ category.name = "fair"

\* C3 as claimed: for every score in [0,100] get_score_category returns a
\* name, and the name is one of the ranges defined in score_ranges.
C3_TotalOverDefinedRanges ==
    (EvaluatorDone /\ InBounds) =>
        /\ ~category.raised
        /\ category.name \in RangeNames(score_ranges)

\* What get_score_category answers for the in-bounds score v.
NameFor(ranges, v, n) ==
    IF Matching(ranges, v) = {} THEN n = "fair" ELSE IsFirstMatch(ranges, v, n)

\* C4: get_score_category never raises; a score below 0 gets the name of
\* score 0, a score above 100 the name of score 100, and None or a
\* non-numeric value still gets a name.
C4_ClampedNotRejected ==
    EvaluatorDone =>
        /\ ~category.raised
        /\ category.name # ""
        /\ (score.kind = "num" /\ score.v < 0) =>
               NameFor(score_ranges, 0, category.name)
        /\ (score.kind = "num" /\ score.v > 10000) =>
               NameFor(score_ranges, 10000, category.name)

\* C4 witness: -5 was categorised as 0 is, 'poor' with the test's ranges.
C4_Witness ==
    /\ EvaluatorDone
    /\ score_ranges = TestRanges
    /\ score = Num(-500)
    /\ category = [raised |-> FALSE, name |-> "poor"]

\* C4 witness above the bounds and for a value that is no number.
C4_WitnessAbove ==
    /\ EvaluatorDone
    /\ score_ranges = TestRanges
    /\ score = Num(10500)
    /\ category = [raised |-> FALSE, name |-> "excellent"]

\* C5 as claimed: when no configured range contains the clamped score, both
\* categorisers fall back to 'poor'.
C5_FallbackIsPoor ==
    /\ (EvaluatorDone /\ score.kind = "num"
          /\ Matching(score_ranges, clamp(score.v)) = {}) =>
           category = [raised |-> FALSE, name |-> "poor"]
    /\ (ReportDone /\ score.kind = "num"
          /\ Matching(score_ranges, clamp(score.v)) = {}) =>
           report_category = [raised |-> FALSE, name |-> "poor"]

\* C5, the report's half alone, for scores within [0,100].
C5_ReportFallbackIsPoor ==
    (ReportDone /\ InBounds /\ Matching(score_ranges, score.v) = {}) =>
        report_category = [raised |-> FALSE, name |-> "poor"]

(***************************************************************************)
(* validate_url (WebsiteEvaluator.validate_url and main.validate_url, the  *)
(* same body) over urllib.parse.urlparse.  A URL is a sequence of          *)
(* characters.                                                             *)
(***************************************************************************)

Letters == {"a", "b", "c", "d", "e", "f", "g", "h", "i", "j", "k", "l", "m",
            "n", "o", "p", "q", "r", "s", "t", "u", "v", "w", "x", "y", "z",
            "H", "T", "P"}

Digits == {"0", "1", "2", "3", "4", "5", "6", "7", "8", "9"}

\* urllib.parse.scheme_chars
scheme_chars == Letters \cup Digits \cup {"+", "-", "."}

\* str.lower on the characters of the alphabet
lower(c) == CASE c = "H" -> "h" [] c = "T" -> "t" [] c = "P" -> "p" [] OTHER -> c

\* str.find from position `from` (1-based) of any character of cs; 0 when
\* there is none.
find_any(s, cs, from) ==
    LET hits == {i \in from..Len(s) : s[i] \in cs}
    IN  IF hits = {} THEN 0 ELSE CHOOSE i \in hits : \A j \in hits : i <= j

\* urlsplit's scheme step: i = url.find(':'); a scheme is split off when
\* i > 0, url[0] is a letter and url[:i] holds scheme characters only.
split_scheme(u) ==
    LET i == find_any(u, {":"}, 1)
    IN  IF /\ i > 1
           /\ u[1] \in Letters
           /\ \A k \in 1..(i - 1) : u[k] \in scheme_chars
        THEN [scheme |-> [k \in 1..(i - 1) |-> lower(u[k])],
              rest   |-> SubSeq(u, i + 1, Len(u))]
        ELSE [scheme |-> <<>>, rest |-> u]

\* urlsplit's netloc step: after '//', up to the first of '/', '?', '#';
\* ValueError("Invalid IPv6 URL") for a bracket without its partner.
split_netloc(rest) ==
    IF Len(rest) >= 2 /\ rest[1] = "/" /\ rest[2] = "/"
    THEN LET d   == find_any(rest, {"/", "?", "#"}, 3)
             end == IF d = 0 THEN Len(rest) ELSE d - 1
             loc == SubSeq(rest, 3, end)
             has(c) == \E k \in 1..Len(loc) : loc[k] = c
         IN  IF (has("[") /\ ~has("]")) \/ (has("]") /\ ~has("["))
             THEN [raised |-> TRUE, netloc |-> <<>>]
             ELSE [raised |-> FALSE, netloc |-> loc]
    ELSE [raised |-> FALSE, netloc |-> <<>>]

\* urlparse(url): the scheme and the netloc of the result.
urlparse(u) ==
    LET s == split_scheme(u)
        n == split_netloc(s.rest)
    IN  [raised |-> n.raised, scheme |-> s.scheme, netloc |-> n.netloc]

\* try: result = urlparse(url); return all([result.scheme, result.netloc])
\* except Exception: return False
validate_url(u) ==
    LET result == urlparse(u)
    IN  IF result.raised THEN FALSE
        ELSE result.scheme # <<>> /\ result.netloc # <<>>

\* ---- inputs ---------------------------------------------------------------

\* The valid_urls and invalid_urls of test_validate_url.
TestValidUrls ==
    { <<"h", "t", "t", "p", "s", ":", "/", "/", "w", "w", "w", ".", "g", "o", "o", "g", "l", "e", ".", "c", "o", "m">>,
      <<"h", "t", "t", "p", ":", "/", "/", "e", "x", "a", "m", "p", "l", "e", ".", "c", "o", "m">>,
      <<"h", "t", "t", "p", "s", ":", "/", "/", "s", "u", "b", "d", "o", "m", "a", "i", "n", ".", "e", "x", "a", "m", "p", "l", "e", ".", "c", "o", ".", "u", "k">> }

TestInvalidUrls ==
    { <<"n", "o", "t", "-", "a", "-", "u", "r", "l">>,
      <<"f", "t", "p", ":", "/", "/", "e", "x", "a", "m", "p", "l", "e", ".", "c", "o", "m">>,
      <<>>,
      <<"h", "t", "t", "p", "s", ":", "/", "/">>,
      <<"w", "w", "w", ".", "g", "o", "o", "g", "l", "e", ".", "c", "o", "m">> }

FtpUrl == <<"f", "t", "p", ":", "/", "/", "e", "x", "a", "m", "p", "l", "e", ".", "c", "o", "m">>

\* The longest URL of the exhaustive part.
MaxUrlLen == 5

UrlAlphabet == {"h", "1", ":", "/", "?", "["}

\* Schemes of the test's URLs, each followed by every short tail.
UrlPrefixes ==
    { <<"h", "t", "t", "p", ":", "/", "/">>,
      <<"H", "T", "T", "P", ":", "/", "/">>,
      <<"h", "t", "t", "p", "s", ":", "/", "/">>,
      <<"f", "t", "p", ":", "/", "/">> }

\* The longest tail.
MaxTailLen == 2

UrlTails == UNION { [1..n -> UrlAlphabet] : n \in 0..MaxTailLen }

UrlInputs ==
    UNION { [1..n -> UrlAlphabet] : n \in 0..MaxUrlLen }
    \cup TestValidUrls \cup TestInvalidUrls
    \cup { p \o t : p \in UrlPrefixes, t \in UrlTails }

InitUrl ==
    /\ url \in UrlInputs
    /\ valid = FALSE
    /\ pcUrl = "ready"
    /\ ScoreIdle /\ CatIdle /\ AnalyzeIdle /\ BatchIdle /\ SectionsIdle /\ StepsIdle /\ CaptureIdle /\ RowIdle /\ PairIdle /\ MainIdle

ValidateUrl ==
    /\ pcUrl = "ready"
    /\ valid' = validate_url(url)
    /\ pcUrl' = "done"
    /\ UNCHANGED url
    /\ UNCHANGED <<scoreVars, catVars, analyzeVars, batchVars, sectionVars, stepVars, captureVars, rowVars, pairVars, mainVars>>

NextUrl == ValidateUrl

SpecUrl == InitUrl /\ [][NextUrl]_vars

\* ---- C8 -------------------------------------------------------------------

Lowered(s) == [k \in 1..Len(s) |-> lower(s[k])]

StartsWith(s, p) == Len(s) >= Len(p) /\ Lowered(SubSeq(s, 1, Len(p))) = p

\* What follows the prefix p of u, up to the first '/', '?' or '#'.
HostAfter(u, p) ==
    LET d == find_any(u, {"/", "?", "#"}, Len(p) + 1)
    IN  SubSeq(u, Len(p) + 1, IF d = 0 THEN Len(u) ELSE d - 1)

\* An http or https URL that has a host: the scheme in either case, '://'
\* and a host of at least one character, of letters, digits, '.' and '-'.
IsHttpUrlWithHost(u) ==
    \E p \in { <<"h", "t", "t", "p", ":", "/", "/">>,
               <<"h", "t", "t", "p", "s", ":", "/", "/">> } :
        /\ StartsWith(u, p)
        /\ HostAfter(u, p) # <<>>
        /\ \A k \in 1..Len(HostAfter(u, p)) :
               HostAfter(u, p)[k] \in Letters \cup Digits \cup {".", "-"}

\* C8 as claimed: validate_url accepts the http and https URLs that have a
\* host and rejects every other input, 'ftp://example.com' among them.
C8_OnlyHttpWithHost ==
    pcUrl = "done" => (valid <=> IsHttpUrlWithHost(url))

\* C8, the part the code keeps: every http or https URL with a host is
\* accepted, and a URL without scheme or without host is rejected.
C8_SchemeAndHostOnly ==
    pcUrl = "done" =>
        /\ IsHttpUrlWithHost(url) => valid
        /\ (url \in TestInvalidUrls /\ url # FtpUrl) => ~valid

(***************************************************************************)
(* DesignAnalyzer.analyze_design and what it calls.                        *)
(*                                                                         *)
(* An image is a grid of gray levels, rows[y][x] (a pixel's three channels *)
(* are equal).  A fraction is a pair <<numerator, denominator>>; NaN is    *)
(* <<0, 0>>.  A score of the AI answer is Num(points), NumText(points),    *)
(* TextScore or NoneScore (JSON null).                                     *)
(***************************************************************************)

\* ---- the screenshot file and its two decoders ------------------------------

\* screenshot.kind:
\*   "image"         both cv2.imread and PIL decode it
\*   "cv_unreadable" PIL decodes it, cv2.imread returns None (a format or a
\*                   path cv2 does not read)
\*   "truncated"     PIL reads the header, loading the pixels raises;
\*                   cv2.imread returns None
\*   "corrupt"       no image: Image.open raises, cv2.imread returns None
\*   "missing"       no file: Image.open raises, cv2.imread returns None
NoImage == [none |-> TRUE, rows |-> <<>>]

\* cv2.imread(screenshot_path): the image, or None without raising.
cv2_imread(f) ==
    IF f.kind = "image" THEN [none |-> FALSE, rows |-> f.rows] ELSE NoImage

\* Image.open(screenshot_path): lazy, raises when the file is no image.
Image_open(f) ==
    CASE f.kind \in {"image", "cv_unreadable"} ->
            [raised |-> FALSE, pil |-> [none |-> FALSE, loads |-> TRUE, rows |-> f.rows]]
      [] f.kind = "truncated" ->
            [raised |-> FALSE, pil |-> [none |-> FALSE, loads |-> FALSE, rows |-> <<>>]]
      [] OTHER ->
            [raised |-> TRUE, pil |-> [none |-> TRUE, loads |-> FALSE, rows |-> <<>>]]

\* ---- pixels ----------------------------------------------------------------

Height(rows) == Len(rows)

Width(rows) == Len(rows[1])

RECURSIVE SeqSum(_, _)
SeqSum(s, i) == IF i > Len(s) THEN 0 ELSE s[i] + SeqSum(s, i + 1)

\* image.reshape(-1, 3): the pixels, row after row.
RECURSIVE Flatten(_, _)
Flatten(rows, y) == IF y > Len(rows) THEN <<>> ELSE rows[y] \o Flatten(rows, y + 1)

SeqValues(s) == {s[i] : i \in 1..Len(s)}

\* np.mean of a sequence: NaN for an empty one (a warning, no exception).
Mean(s) == IF Len(s) = 0 THEN <<0, 0>> ELSE <<SeqSum(s, 1), Len(s)>>

\* The variance of a sequence (the square of np.std), as a fraction.
Variance(s) ==
    LET n  == Len(s)
        s1 == SeqSum(s, 1)
        s2 == SeqSum([i \in 1..n |-> s[i] * s[i]], 1)
    IN  <<n * s2 - s1 * s1, n * n>>

\* abs(a - b) of two fractions; NaN when either is.
AbsDiff(a, b) ==
    IF a[2] = 0 \/ b[2] = 0 THEN <<0, 0>>
    ELSE <<Abs(a[1] * b[2] - b[1] * a[2]), a[2] * b[2]>>

\* ---- _analyze_colors ---------------------------------------------------------

\* KMeans(n_clusters=5), design_analyzer.py:248
KMeansClusters == 5

\* The descriptor of the except branch: neutral gray.
ColorDefault ==
    [dominant_colors |-> {128}, average_rgb |-> <<128, 1>>,
     contrast_var |-> <<2500, 1>>, brightness |-> <<128, 1>>,
     color_diversity |-> 100]

\* The try block.  image.mode raises on None, np.array on a truncated file,
\* KMeans.fit on fewer samples than clusters.  The cluster centres of an
\* image with fewer gray levels than clusters are its gray levels.
analyze_colors_try(pil) ==
    IF pil.none \/ ~pil.loads THEN [raised |-> TRUE]
    ELSE LET pixels == Flatten(pil.rows, 1)
         IN  IF Len(pixels) < KMeansClusters THEN [raised |-> TRUE]
             ELSE [raised |-> FALSE,
                   value |-> [dominant_colors |-> SeqValues(pixels),
                              average_rgb     |-> Mean(pixels),
                              contrast_var    |-> Variance(pixels),
                              brightness      |-> Mean(pixels),
                              color_diversity |-> Cardinality(SeqValues(pixels))]]

\* Mutant: no except branch.
analyze_colors_unguarded(pil) == analyze_colors_try(pil)

\* DesignAnalyzer._analyze_colors: try, except Exception -> the default.
analyze_colors(pil) ==
    LET t == analyze_colors_try(pil)
    IN  IF t.raised THEN [raised |-> FALSE, value |-> ColorDefault] ELSE t

\* ---- _find_sections and _analyze_layout -----------------------------------------

\* The loop of _find_sections from entry i on, with the sections found so
\* far, in_section and section_start; then the closing of an open section.
RECURSIVE find_sections_loop(_, _, _, _, _, _)
find_sections_loop(profile, threshold, i, sections, in_section, section_start) ==
    IF i > Len(profile)
    THEN IF in_section
         THEN Append(sections, <<section_start, Len(profile)>>)
         ELSE sections
    ELSE IF profile[i] < threshold /\ ~in_section
         THEN find_sections_loop(profile, threshold, i + 1, sections, TRUE, i - 1)
    ELSE IF profile[i] >= threshold /\ in_section
         THEN find_sections_loop(profile, threshold, i + 1,
                                 Append(sections, <<section_start, i - 1>>),
                                 FALSE, section_start)
    ELSE find_sections_loop(profile, threshold, i + 1, sections, in_section,
                            section_start)

\* Mutant: a section still open at the end of the profile is not closed.
find_sections_unclosed(profile, threshold) ==
    LET found == find_sections_loop(profile, threshold, 1, <<>>, FALSE, 0)
    IN  IF Len(profile) > 0 /\ profile[Len(profile)] < threshold
        THEN SubSeq(found, 1, Len(found) - 1)
        ELSE found

\* DesignAnalyzer._find_sections: (start, end) pairs in Python's 0-based
\* indices (entry i of the sequence is index i - 1).
find_sections(profile, threshold) ==
    find_sections_loop(profile, threshold, 1, <<>>, FALSE, 0)

\* The default threshold of _find_sections.
SectionThreshold == 10

\* gray < 240, design_analyzer.py:302
NearWhite == 240

\* The descriptor of the except branch.
LayoutDefault ==
    [content_density |-> <<5, 10>>, line_count |-> 0, sections_detected |-> 3,
     horizontal_balance |-> <<10, 1>>, whitespace_ratio |-> <<3, 10>>,
     image_dimensions |-> <<1920, 1080>>]

\* np.mean(gray, axis=1) compared with the threshold: the row sums, against
\* the threshold times the width.
RowSums(rows) == [y \in 1..Len(rows) |-> SeqSum(rows[y], 1)]

\* The try block.  cv2.cvtColor raises on None.  HoughLines with 100 votes
\* finds no line in an image of fewer than 100 pixels.
analyze_layout_try(image) ==
    IF image.none THEN [raised |-> TRUE]
    ELSE LET gray    == image.rows
             height  == Height(gray)
             width   == Width(gray)
             total   == height * width
             content == Cardinality({p \in (1..height) \X (1..width) :
                                        gray[p[1]][p[2]] < NearWhite})
             sections == find_sections(RowSums(gray), SectionThreshold * width)
             half    == width \div 2
             left    == Flatten([y \in 1..height |-> SubSeq(gray[y], 1, half)], 1)
             right   == Flatten([y \in 1..height |-> SubSeq(gray[y], half + 1, width)], 1)
         IN  [raised |-> FALSE,
              value |-> [content_density    |-> <<content, total>>,
                         line_count         |-> 0,
                         sections_detected  |-> Len(sections),
                         horizontal_balance |-> AbsDiff(Mean(left), Mean(right)),
                         whitespace_ratio   |-> <<total - content, total>>,
                         image_dimensions   |-> <<width, height>>]]

\* Mutant: no except branch.
analyze_layout_unguarded(image) == analyze_layout_try(image)

\* DesignAnalyzer._analyze_layout: try, except Exception -> the default.
analyze_layout(image) ==
    LET t == analyze_layout_try(image)
    IN  IF t.raised THEN [raised |-> FALSE, value |-> LayoutDefault] ELSE t

\* ---- _analyze_typography ---------------------------------------------------------

\* The descriptor of the except branch, values in thousandths.
TypographyDefault ==
    [text_regions_detected |-> 10, average_text_height |-> 16000,
     text_height_consistency |-> 700, text_coverage_ratio |-> 150,
     estimated_readability |-> 70000]

\* The try block.  cv2.cvtColor raises on None.  The filter 50 < area < 10000
\* keeps no contour of an image of fewer than 50 pixels, so text_contours is
\* empty and the else branch sets height 20, consistency 0.5, coverage 0.1;
\* the readability is min(100, 0.5 * 100).
analyze_typography_try(image) ==
    IF image.none THEN [raised |-> TRUE]
    ELSE [raised |-> FALSE,
          value |-> [text_regions_detected |-> 0, average_text_height |-> 20000,
                     text_height_consistency |-> 500, text_coverage_ratio |-> 100,
                     estimated_readability |-> Min(100000, 500 * 100)]]

\* Mutant: no except branch.
analyze_typography_unguarded(image) == analyze_typography_try(image)

\* DesignAnalyzer._analyze_typography: try, except Exception -> the default.
analyze_typography(image) ==
    LET t == analyze_typography_try(image)
    IN  IF t.raised THEN [raised |-> FALSE, value |-> TypographyDefault] ELSE t

\* ---- _analyze_with_openai ------------------------------------------------------

\* The keys of the AI answer: "<category>_score", "<category>_analysis",
\* "<category>_recommendations", as pairs.
AIKeys == CategorySet \X {"score", "analysis", "recommendations"}

\* The score .get() falls back to, design_analyzer.py:73
DefaultScore == 70

\* The dict of the except branch of _analyze_with_openai: 70, 'Analisis no
\* disponible' and one recommendation for each category.
FallbackRecommendation(c) ==
    CASE c = "typography"    -> "Verificar contraste de texto"
      [] c = "color"         -> "Revisar esquema de colores"
      [] c = "layout"        -> "Mejorar estructura visual"
      [] c = "usability"     -> "Simplificar navegacion"
      [] c = "modern_design" -> "Actualizar diseno visual"

openai_fallback ==
    [k \in AIKeys |->
        CASE k[2] = "score"    -> Num(DefaultScore)
          [] k[2] = "analysis" -> "Analisis no disponible"
          [] OTHER             -> <<FallbackRecommendation(k[1])>>]

\* DesignAnalyzer._get_default_ai_analysis: 70, an automatic narrative and
\* two recommendations for each category.
get_default_ai_analysis ==
    [k \in AIKeys |->
        CASE k[2] = "score"    -> Num(DefaultScore)
          [] k[2] = "analysis" -> "Analisis automatico"
          [] OTHER             -> <<"Recomendacion automatica 1",
                                    "Recomendacion automatica 2">>]

\* json.loads of a text: JSONDecodeError for what is no JSON, else the value.
json_loads(text) ==
    IF text.json = "garbage" THEN [raised |-> TRUE]
    ELSE [raised |-> FALSE, value |-> text]

\* Lines 196-197: a content that starts with '```json' loses its fences; any
\* other content is parsed as it is, fences included.
strip_markdown(resp) ==
    CASE resp.fence = "json"  -> resp.text
      [] resp.fence = "plain" -> [json |-> "garbage"]
      [] OTHER                -> resp.text

\* The try block of _analyze_with_openai: reading the file, the request, the
\* content, the parse.
analyze_with_openai_try(f, resp) ==
    CASE f.kind = "missing" -> [raised |-> TRUE]
      [] resp.kind \in {"request_error", "provider_error"} -> [raised |-> TRUE]
      [] resp.kind = "no_content" -> [raised |-> TRUE]
      [] OTHER -> json_loads(strip_markdown(resp))

\* Mutant: no except branch.
analyze_with_openai_unguarded(f, resp) == analyze_with_openai_try(f, resp)

\* DesignAnalyzer._analyze_with_openai: try, except Exception -> the dict.
analyze_with_openai(f, resp) ==
    LET t == analyze_with_openai_try(f, resp)
    IN  IF t.raised
        THEN [raised |-> FALSE, value |-> [json |-> "object", fields |-> openai_fallback]]
        ELSE t

\* ---- analyze_design ---------------------------------------------------------------

\* ai_analysis.get(key, default): AttributeError when ai_analysis is no dict
\* is decided by the caller.
ai_get(fields, key, default) == IF key \in DOMAIN fields THEN fields[key] ELSE default

\* The dict of lines 71-100 for one category.
category_result(c, fields, technical) ==
    LET base == [score           |-> ai_get(fields, <<c, "score">>, Num(DefaultScore)),
                 analysis        |-> ai_get(fields, <<c, "analysis">>, ""),
                 recommendations |-> ai_get(fields, <<c, "recommendations">>, <<>>)]
    IN  IF c \in DOMAIN technical
        THEN [score |-> base.score, analysis |-> base.analysis,
              technical_data |-> technical[c],
              recommendations |-> base.recommendations]
        ELSE base

\* DesignAnalyzer.analyze_design
analyze_design(f, resp) ==
    LET image  == cv2_imread(f)
        opened == Image_open(f)
        ai_try == analyze_with_openai(f, resp)
        ai     == IF ai_try.raised
                  THEN [json |-> "object", fields |-> get_default_ai_analysis]
                  ELSE ai_try.value
        color_try  == analyze_colors(opened.pil)
        color      == IF color_try.raised THEN <<>> ELSE color_try.value
        layout     == analyze_layout(image)
        typography == analyze_typography(image)
    IN  IF opened.raised THEN [raised |-> TRUE]
        ELSE IF layout.raised \/ typography.raised THEN [raised |-> TRUE]
        ELSE IF ai.json # "object" THEN [raised |-> TRUE]
        ELSE [raised |-> FALSE,
              results |-> [c \in CategorySet |->
                             category_result(c, ai.fields,
                                 [t \in {"typography", "color", "layout"} |->
                                     CASE t = "typography" -> typography.value
                                       [] t = "color"      -> color
                                       [] OTHER            -> layout.value])]]

\* ---- inputs ---------------------------------------------------------------

\* The largest image of the model.
MaxRows == 3

MaxWidth == 3

\* The rows of width w: dark, mid gray, white, and dark left of white.
RowPatterns(w) ==
    { [x \in 1..w |-> 0], [x \in 1..w |-> 128], [x \in 1..w |-> 255],
      [x \in 1..w |-> IF x <= w \div 2 THEN 0 ELSE 255] }

Grids ==
    UNION { [1..h -> RowPatterns(w)] : h \in 1..MaxRows, w \in 1..MaxWidth }

ScreenshotFiles ==
    { [kind |-> k, rows |-> r] : k \in {"image", "cv_unreadable"}, r \in Grids }
    \cup { [kind |-> "truncated"], [kind |-> "corrupt"], [kind |-> "missing"] }

\* An AI answer with every key: the scores sc, a narrative, two recommendations.
FullObject(sc) ==
    [k \in AIKeys |->
        CASE k[2] = "score"    -> sc[k[1]]
          [] k[2] = "analysis" -> "AI narrative"
          [] OTHER             -> <<"AI recommendation 1", "AI recommendation 2">>]

Without(fields, keys) == [k \in DOMAIN fields \ keys |-> fields[k]]

AllScore(v) == [c \in CategorySet |-> v]

TestScores == [c \in CategorySet |-> Num(TestAnalysis[c].score)]

JsonObjects ==
    { FullObject(AllScore(Num(85))),
      FullObject(TestScores),
      FullObject([AllScore(Num(85)) EXCEPT !["typography"] = Num(150)]),
      FullObject([AllScore(Num(85)) EXCEPT !["color"] = Num(-5)]),
      FullObject([AllScore(Num(85)) EXCEPT !["typography"] = NumText(85)]),
      FullObject([AllScore(Num(85)) EXCEPT !["layout"] = NoneScore]),
      Without(FullObject(AllScore(Num(85))), {<<"typography", "score">>}),
      Without(FullObject(AllScore(Num(85))), {"color"} \X {"score", "analysis", "recommendations"}),
      Without(FullObject(AllScore(Num(85))), AIKeys) }

JsonTexts ==
    { [json |-> "object", fields |-> o] : o \in JsonObjects }
    \cup { [json |-> j] : j \in {"array", "number", "string", "null", "garbage"} }

AIResponses ==
    { [kind |-> k] : k \in {"request_error", "provider_error", "no_content"} }
    \cup { [kind |-> "content", fence |-> fc, text |-> t] :
              fc \in {"none", "json", "plain"}, t \in JsonTexts }

InitAnalyze ==
    /\ screenshot \in ScreenshotFiles
    /\ response \in AIResponses
    /\ analysis = [raised |-> FALSE]
    /\ pcAnalyze = "ready"
    /\ ScoreIdle /\ CatIdle /\ UrlIdle /\ BatchIdle /\ SectionsIdle /\ StepsIdle /\ CaptureIdle /\ RowIdle /\ PairIdle /\ MainIdle

AnalyzeDesign ==
    /\ pcAnalyze = "ready"
    /\ analysis' = analyze_design(screenshot, response)
    /\ pcAnalyze' = "done"
    /\ UNCHANGED <<screenshot, response>>
    /\ UNCHANGED <<scoreVars, catVars, urlVars, batchVars, sectionVars, stepVars, captureVars, rowVars, pairVars, mainVars>>

NextAnalyze == AnalyzeDesign

SpecAnalyze == InitAnalyze /\ [][NextAnalyze]_vars

\* ---- C9, C10 ----------------------------------------------------------------

AnalyzeDone == pcAnalyze = "done"

\* Image.open succeeds on the screenshot.
Opens(f) == f.kind \in {"image", "cv_unreadable", "truncated"}

\* The request or the provider fails, or the content is missing or is no
\* JSON (also because of fences that are not stripped).
AIRaises(resp) ==
    \/ resp.kind \in {"request_error", "provider_error", "no_content"}
    \/ resp.kind = "content" /\ (resp.fence = "plain" \/ resp.text.json = "garbage")

\* The content parses, to a JSON value that is no object.
AINotAnObject(resp) ==
    /\ resp.kind = "content"
    /\ resp.fence # "plain"
    /\ resp.text.json \in {"array", "number", "string", "null"}

\* The fixed default of a category: 70, the generic narrative, one generic
\* recommendation.
IsFixedDefault(r) ==
    /\ r.score = Num(70)
    /\ r.analysis = "Analisis no disponible"
    /\ Len(r.recommendations) = 1

\* C9 as claimed: on any AI classifier failure (request error, provider
\* error, unparseable response, parsed response that is no JSON object)
\* analyze_design does not raise and every category gets the fixed default.
C9_AnyAIFailureGivesDefault ==
    (AnalyzeDone /\ Opens(screenshot)
       /\ (AIRaises(response) \/ AINotAnObject(response))) =>
        /\ ~analysis.raised
        /\ \A c \in CategorySet : IsFixedDefault(analysis.results[c])

\* C9, the failures the code does absorb: those that raise inside
\* _analyze_with_openai.
C9_RaisingAIFailureGivesDefault ==
    (AnalyzeDone /\ Opens(screenshot) /\ AIRaises(response)) =>
        /\ ~analysis.raised
        /\ \A c \in CategorySet : IsFixedDefault(analysis.results[c])

\* The AI answer is one analyze_design can combine.
AIUsable(resp) == ~AINotAnObject(resp)

PixelsOf(f) == Flatten(f.rows, 1)

\* d is the color descriptor of the file: the neutral gray default, or one
\* computed from the pixels PIL decodes.
IsColorDescriptor(f, d) ==
    \/ /\ d = ColorDefault
       /\ d.dominant_colors = {128}
    \/ /\ f.kind \in {"image", "cv_unreadable"}
       /\ d.dominant_colors = SeqValues(PixelsOf(f))
       /\ d.color_diversity = Cardinality(SeqValues(PixelsOf(f)))
       /\ d.brightness = <<SeqSum(PixelsOf(f), 1), Len(PixelsOf(f))>>

\* d is the layout descriptor of the file: the default (density 0.5, 3
\* sections, balance 10.0), or one computed from the pixels cv2 decodes.
IsLayoutDescriptor(f, d) ==
    \/ /\ d = LayoutDefault
       /\ d.content_density = <<5, 10>>
       /\ d.sections_detected = 3
       /\ d.horizontal_balance = <<10, 1>>
    \/ /\ f.kind = "image"
       /\ d.image_dimensions = <<Len(f.rows[1]), Len(f.rows)>>
       /\ d.content_density =
              <<Cardinality({i \in 1..Len(PixelsOf(f)) : PixelsOf(f)[i] < 240}),
                Len(PixelsOf(f))>>

\* d is the typography descriptor of the file: the default, or the moderate
\* values of an image without text contours.
IsTypographyDescriptor(f, d) ==
    \/ /\ d = TypographyDefault
       /\ d.text_regions_detected = 10
       /\ d.estimated_readability = 70000
    \/ /\ f.kind = "image"
       /\ d.text_regions_detected = 0
       /\ d.average_text_height = 20000
       /\ d.estimated_readability = 50000

\* C10: the color, layout and typography analyzers never raise: for any
\* image, None, 1x1 and solid ones included, each returns a computed
\* descriptor or its fixed default, and the technical metrics stored for the
\* category are that descriptor.
C10_AnalyzersNeverRaise ==
    (AnalyzeDone /\ Opens(screenshot) /\ AIUsable(response)) =>
        /\ ~analysis.raised
        /\ IsColorDescriptor(screenshot, analysis.results["color"].technical_data)
        /\ IsLayoutDescriptor(screenshot, analysis.results["layout"].technical_data)
        /\ IsTypographyDescriptor(screenshot,
                                  analysis.results["typography"].technical_data)
        /\ screenshot.kind # "image" =>
              /\ analysis.results["layout"].technical_data = LayoutDefault
              /\ analysis.results["typography"].technical_data = TypographyDefault
        /\ (screenshot.kind = "truncated" \/ Len(PixelsOf(screenshot)) < 5) =>
              analysis.results["color"].technical_data = ColorDefault

\* C10 witness: cv2 decoded nothing (image is None), and the layout and
\* typography metrics stored are the defaults, next to computed colors.
C10_Witness ==
    /\ AnalyzeDone /\ ~analysis.raised
    /\ screenshot.kind = "cv_unreadable"
    /\ analysis.results["layout"].technical_data = LayoutDefault
    /\ analysis.results["typography"].technical_data = TypographyDefault
    /\ analysis.results["color"].technical_data # ColorDefault

\* C10 witness: a 1x1 image, with the default colors and a computed layout.
C10_WitnessOnePixel ==
    /\ AnalyzeDone /\ ~analysis.raised
    /\ screenshot.kind = "image"
    /\ Len(PixelsOf(screenshot)) = 1
    /\ analysis.results["color"].technical_data = ColorDefault
    /\ analysis.results["layout"].technical_data.image_dimensions = <<1, 1>>

\* C10 witness: a solid image of six pixels, all computed.
C10_WitnessSolid ==
    /\ AnalyzeDone /\ ~analysis.raised
    /\ screenshot.kind = "image"
    /\ Len(PixelsOf(screenshot)) = 6
    /\ analysis.results["color"].technical_data.color_diversity = 1
    /\ analysis.results["layout"].technical_data.content_density = <<6, 6>>

(***************************************************************************)
(* evaluate_website and batch_evaluate (src/website_evaluator.py), with    *)
(* the collaborators they call.  What a collaborator does when asked is    *)
(* chosen by the environment; the order of the calls is the code's.        *)
(***************************************************************************)

\* The most URLs of one batch.
MaxBatch == 2

\* What the environment decides for one evaluation.
\*   setup:    webdriver.Chrome starts, or both attempts fail
\*   page:     driver.get and the capture succeed, or raise
\*   storage:  S3 takes the file, is not configured, finds no file, or its
\*             client raises ClientError or another exception
\*   file:     the screenshot file as the image libraries see it
\*   response: what the AI classifier does
\*   report:   the PDF is built, or building it raises
\*   sheets:   the row is appended, the client is not configured, or
\*             preparing or appending the row raises
BatchFiles ==
    { [kind |-> "image", rows |-> <<<<0, 255>>, <<0, 255>>>>],
      [kind |-> "corrupt"] }

BatchResponses ==
    { [kind |-> "request_error"],
      [kind |-> "content", fence |-> "none",
       text |-> [json |-> "object", fields |-> FullObject(TestScores)]],
      [kind |-> "content", fence |-> "none", text |-> [json |-> "array"]],
      [kind |-> "content", fence |-> "json",
       text |-> [json |-> "object",
                 fields |-> FullObject([AllScore(Num(85)) EXCEPT
                                            !["typography"] = NumText(85)])]],
      [kind |-> "content", fence |-> "none",
       text |-> [json |-> "object", fields |-> FullObject(AllScore(Num(150)))]] }

StorageFailures == {"not_configured", "file_missing", "client_error", "error"}

SheetsFailures == {"not_configured", "append_error"}

EnvironmentChoices ==
    [ setup    : {"ok", "error"},
      page     : {"ok", "error"},
      storage  : {"ok"} \cup StorageFailures,
      file     : BatchFiles,
      response : BatchResponses,
      report   : {"ok", "error"},
      sheets   : {"ok"} \cup SheetsFailures ]

\* ScreenshotCapture.capture_website: the driver is set up when there is
\* none; every exception is re-raised.
capture_website(drv, env) ==
    IF drv = "none" /\ env.setup = "error"
    THEN [raised |-> TRUE, driver |-> "none"]
    ELSE IF env.page = "error"
    THEN [raised |-> TRUE, driver |-> "open"]
    ELSE [raised |-> FALSE, driver |-> "open"]

\* The try block of upload_to_s3 (cloud_storage.py:91-129).
upload_to_s3_try(st) ==
    IF st \in {"client_error", "error"}
    THEN [raised |-> TRUE, value |-> "None"]
    ELSE [raised |-> FALSE, value |-> "s3_url"]

\* Mutant: no except branches.
upload_to_s3_unguarded(st) ==
    IF st \in {"not_configured", "file_missing"}
    THEN [raised |-> FALSE, value |-> "None"]
    ELSE upload_to_s3_try(st)

\* CloudStorageManager.upload_to_s3: None when S3 is not configured, when
\* the file is not there, and from both except branches.
upload_to_s3(st) ==
    IF st \in {"not_configured", "file_missing"}
    THEN [raised |-> FALSE, value |-> "None"]
    ELSE IF upload_to_s3_try(st).raised
    THEN [raised |-> FALSE, value |-> "None"]
    ELSE upload_to_s3_try(st)

\* CloudStorageManager.upload_screenshot
upload_screenshot(st) ==
    IF st = "file_missing"
    THEN [raised |-> FALSE, value |-> "None"]
    ELSE upload_to_s3(st)

\* ReportGenerator.generate_report: nothing in it catches.
generate_report(rp) ==
    IF rp = "error"
    THEN [raised |-> TRUE, value |-> "None"]
    ELSE [raised |-> FALSE, value |-> "report"]

\* The try block of log_evaluation (google_sheets_integration.py:138-149).
log_evaluation_try(sh) ==
    CASE sh = "not_configured" -> [raised |-> FALSE, value |-> FALSE]
      [] sh = "append_error"   -> [raised |-> TRUE,  value |-> FALSE]
      [] OTHER                 -> [raised |-> FALSE, value |-> TRUE]

\* Mutant: no except branch.
log_evaluation_unguarded(sh) == log_evaluation_try(sh)

\* GoogleSheetsIntegration.log_evaluation: False from the except branch.
log_evaluation(sh) ==
    IF log_evaluation_try(sh).raised
    THEN [raised |-> FALSE, value |-> FALSE]
    ELSE log_evaluation_try(sh)

\* category_score * weight is defined for int and float scores.
numeric_scores(ar) == \A c \in DOMAIN ar : ar[c].score.kind = "num"

plain_scores(ar) == [c \in DOMAIN ar |-> [score |-> ar[c].score.v]]

\* What each collaborator did for one evaluation, "not_called" at first.
NotCalled ==
    [capture |-> "not_called", upload |-> "not_called",
     file |-> [kind |-> "not_called"], response |-> [kind |-> "not_called"],
     report |-> "not_called", sheets |-> "not_called"]

\* What evaluate_website hands back: the exception or the evaluation data,
\* the collaborator calls it made in order, what the collaborators did, and
\* the driver it leaves.
Raised(e, calls, drv, did) ==
    [raised |-> TRUE, error |-> e, calls |-> calls, driver |-> drv, did |-> did]

Returned(data, calls, drv, did) ==
    [raised |-> FALSE, data |-> data, calls |-> calls, driver |-> drv, did |-> did]

\* Mutant: a failure of generate_report is swallowed, the report path left
\* empty.
report_and_log_swallowing(data, sheets, drv, env, calls, did) ==
    LET rep   == generate_report(env.report)
        c4    == Append(calls, "generate_report")
        did4  == [did EXCEPT !.report = env.report]
        full  == [k \in DOMAIN data \cup {"report_path"} |->
                     IF k = "report_path" THEN rep.value ELSE data[k]]
        log   == log_evaluation(env.sheets)
    IN  IF ~sheets THEN Returned(full, c4, drv, did4)
        ELSE IF log.raised
        THEN Raised("sheets", Append(c4, "log_evaluation"), drv,
                    [did4 EXCEPT !.sheets = "raised"])
        ELSE Returned(full, Append(c4, "log_evaluation"), drv,
                      [did4 EXCEPT !.sheets =
                          IF log.value THEN "logged" ELSE "failed"])

\* evaluate_website, lines 127-137: the report, then the optional row.
report_and_log(data, sheets, drv, env, calls, did) ==
    LET rep   == generate_report(env.report)
        c4    == Append(calls, "generate_report")
        did4  == [did EXCEPT !.report = env.report]
        full  == [k \in DOMAIN data \cup {"report_path"} |->
                     IF k = "report_path" THEN rep.value ELSE data[k]]
        log   == log_evaluation(env.sheets)
    IN  IF rep.raised THEN Raised("report", c4, drv, did4)
        ELSE IF ~sheets THEN Returned(full, c4, drv, did4)
        ELSE IF log.raised
        THEN Raised("sheets", Append(c4, "log_evaluation"), drv,
                    [did4 EXCEPT !.sheets = "raised"])
        ELSE Returned(full, Append(c4, "log_evaluation"), drv,
                      [did4 EXCEPT !.sheets =
                          IF log.value THEN "logged" ELSE "failed"])

\* self.design_analyzer.analyze_design(screenshot_path, url), tabulated
\* over the files and the AI answers of the batch.
BatchAnalysis ==
    [f \in BatchFiles |-> [r \in BatchResponses |-> analyze_design(f, r)]]

\* evaluate_website, lines 103-125: the optional upload, the analysis, the
\* final score and the evaluation data.  now is the clock at entry; the
\* clock ticks once per collaborator call.
evaluate_captured(u, cloud, sheets, drv, env, now, calls, did) ==
    LET up    == upload_screenshot(env.storage)
        c2    == IF cloud THEN Append(calls, "upload_screenshot") ELSE calls
        did2  == IF cloud
                 THEN [did EXCEPT !.upload =
                          IF up.raised THEN "raised"
                          ELSE IF up.value = "None" THEN "none" ELSE "url"]
                 ELSE did
        cloud_url == IF cloud THEN up.value ELSE "None"
        c3    == Append(c2, "analyze_design")
        an    == BatchAnalysis[env.file][env.response]
        did3  == [did2 EXCEPT !.file = env.file, !.response = env.response]
        data  == [url              |-> u,
                  timestamp        |-> now + Len(c3),
                  screenshot_path  |-> "screenshot",
                  cloud_url        |-> cloud_url,
                  analysis_results |-> an.results,
                  final_score      |-> calculate_final_score(TestWeights,
                                           plain_scores(an.results)),
                  evaluation_time  |-> Len(c3)]
    IN  IF cloud /\ up.raised THEN Raised("upload", c2, drv, did2)
        ELSE IF an.raised THEN Raised("analysis", c3, drv, did3)
        ELSE IF ~numeric_scores(an.results) THEN Raised("TypeError", c3, drv, did3)
        ELSE report_and_log(data, sheets, drv, env, c3, did3)

\* Mutant: the evaluation goes on after a failed capture.
evaluate_valid_capture_ignored(u, cloud, sheets, drv, env, now) ==
    LET cap == capture_website(drv, env)
    IN  evaluate_captured(u, cloud, sheets, cap.driver, env, now,
                          <<"capture_website">>,
                          [NotCalled EXCEPT !.capture =
                              IF cap.raised THEN "error" ELSE "ok"])

\* Mutant: the screenshot is uploaded whatever save_to_cloud says.
evaluate_valid_always_uploading(u, cloud, sheets, drv, env, now) ==
    LET cap == capture_website(drv, env)
    IN  IF cap.raised
        THEN Raised("capture", <<"capture_website">>, cap.driver,
                    [NotCalled EXCEPT !.capture = "error"])
        ELSE evaluate_captured(u, TRUE, sheets, cap.driver, env, now,
                               <<"capture_website">>,
                               [NotCalled EXCEPT !.capture = "ok"])

\* evaluate_website below the URL check, lines 96-101: the capture.
evaluate_valid(u, cloud, sheets, drv, env, now) ==
    LET cap == capture_website(drv, env)
    IN  IF cap.raised
        THEN Raised("capture", <<"capture_website">>, cap.driver,
                    [NotCalled EXCEPT !.capture = "error"])
        ELSE evaluate_captured(u, cloud, sheets, cap.driver, env, now,
                               <<"capture_website">>,
                               [NotCalled EXCEPT !.capture = "ok"])

\* Mutant: the evaluation without the URL check.
evaluate_website_unvalidated(u, cloud, sheets, drv, env, now) ==
    evaluate_valid(u, cloud, sheets, drv, env, now)

\* WebsiteEvaluator.evaluate_website
evaluate_website(u, cloud, sheets, drv, env, now) ==
    IF ~validate_url(u) THEN Raised("ValueError", <<>>, drv, NotCalled)
    ELSE evaluate_valid(u, cloud, sheets, drv, env, now)

\* Mutant: the result of a failed evaluation left out of the list.
batch_append_dropping(res, u, r, now) ==
    IF r.raised THEN res ELSE Append(res, r.data)

\* The body of the loop of batch_evaluate once evaluate_website is over:
\* the result, or the error record of the except branch.
batch_append(res, u, r, now) ==
    IF r.raised
    THEN Append(res, [url |-> u, error |-> r.error, timestamp |-> now])
    ELSE Append(res, r.data)

\* ---- inputs ---------------------------------------------------------------

\* A URL with scheme and host, one without scheme, one without host.
BatchUrls ==
    { <<"h", "t", "t", "p", ":", "/", "/", "h">>,
      <<"h">>,
      <<"h", "t", "t", "p", ":", "/", "/">> }

UrlLists == UNION { [1..n -> BatchUrls] : n \in 0..MaxBatch }

\* The environment that lets everything succeed.
Cooperative ==
    [ setup |-> "ok", page |-> "ok", storage |-> "ok",
      file |-> [kind |-> "image", rows |-> <<<<0, 255>>, <<0, 255>>>>],
      response |-> [kind |-> "request_error"],
      report |-> "ok", sheets |-> "ok" ]

\* The environment decides only what it is asked: a collaborator that comes
\* after a step that raises is left at its cooperative answer.
Environments ==
    { env \in EnvironmentChoices :
        LET an == analyze_design(env.file, env.response)
        IN  /\ env.setup = "error" => env.page = "ok"
            /\ (env.setup = "error" \/ env.page = "error") =>
                  env = [Cooperative EXCEPT !.setup = env.setup, !.page = env.page]
            /\ Image_open(env.file).raised => env.response = Cooperative.response
            /\ (an.raised \/ ~numeric_scores(an.results)) =>
                  env.report = "ok" /\ env.sheets = "ok"
            /\ env.report = "error" => env.sheets = "ok" }

\* Nor does it decide for a collaborator the flags leave out, for a driver
\* that is already set up, or for a URL that is refused.
Asked(env, u, cloud, sheets, drv) ==
    /\ drv = "open" => env.setup = "ok"
    /\ ~cloud => env.storage = "ok"
    /\ ~sheets => env.sheets = "ok"
    /\ (~validate_url(u)) => env = Cooperative

Init ==
    /\ urls \in UrlLists
    /\ save_to_cloud \in BOOLEAN
    /\ save_to_sheets \in BOOLEAN
    /\ results = <<>>
    /\ trail = <<>>
    /\ outcomes = <<>>
    /\ driver = "none"
    /\ pcBatch = "running"
    /\ ScoreIdle /\ CatIdle /\ UrlIdle /\ AnalyzeIdle /\ SectionsIdle /\ StepsIdle /\ CaptureIdle /\ RowIdle /\ PairIdle /\ MainIdle

\* One iteration of the loop of batch_evaluate.
BatchStep ==
    /\ pcBatch = "running"
    /\ Len(outcomes) < Len(urls)
    /\ \E env \in Environments :
          LET i == Len(outcomes) + 1
              r == evaluate_website(urls[i], save_to_cloud, save_to_sheets,
                                    driver, env, Len(trail))
          IN  /\ Asked(env, urls[i], save_to_cloud, save_to_sheets, driver)
              /\ results' = batch_append(results, urls[i], r,
                                         Len(trail) + Len(r.calls))
              /\ trail' = trail \o [k \in 1..Len(r.calls) |-> <<i, r.calls[k]>>]
              /\ outcomes' = Append(outcomes,
                                    [raised  |-> r.raised,
                                     error   |-> IF r.raised THEN r.error ELSE "",
                                     capture |-> r.did.capture,
                                     upload  |-> r.did.upload,
                                     file    |-> r.did.file,
                                     response |-> r.did.response,
                                     report  |-> r.did.report,
                                     sheets  |-> r.did.sheets])
              /\ driver' = r.driver
    /\ UNCHANGED <<urls, save_to_cloud, save_to_sheets, pcBatch>>
    /\ UNCHANGED <<scoreVars, catVars, urlVars, analyzeVars, sectionVars, stepVars, captureVars, rowVars, pairVars, mainVars>>

\* return results
BatchReturn ==
    /\ pcBatch = "running"
    /\ Len(outcomes) = Len(urls)
    /\ pcBatch' = "returned"
    /\ UNCHANGED <<urls, save_to_cloud, save_to_sheets, results, trail, outcomes,
                   driver>>
    /\ UNCHANGED <<scoreVars, catVars, urlVars, analyzeVars, sectionVars, stepVars, captureVars, rowVars, pairVars, mainVars>>

Next == BatchStep \/ BatchReturn

Spec == Init /\ [][Next]_vars

\* ---- C6, C7 -----------------------------------------------------------------

IsFullResult(r) == "final_score" \in DOMAIN r /\ "error" \notin DOMAIN r

IsErrorRecord(r) == DOMAIN r = {"url", "error", "timestamp"}

\* The collaborators invoked for urls[i], in order.
CallsFor(i) ==
    LET mine == SelectSeq(trail, LAMBDA t : t[1] = i)
    IN  [k \in 1..Len(mine) |-> mine[k][2]]

\* The URL lacks a scheme or a host.
LacksSchemeOrHost(u) ==
    LET parts == urlparse(u)
    IN  parts.raised \/ parts.scheme = <<>> \/ parts.netloc = <<>>

\* C6: batch_evaluate over N URLs returns N results in input order, slot i
\* a full result or an error record for urls[i]; an exception on one URL
\* never keeps the later URLs from being evaluated, so one failing capture
\* gives one error record in its slot and full results in the others.
C6_BatchResultsInOrder ==
    /\ Len(results) = Len(outcomes)
    /\ pcBatch = "returned" => Len(results) = Len(urls)
    /\ \A i \in 1..Len(results) :
          /\ results[i].url = urls[i]
          /\ IsFullResult(results[i]) \/ IsErrorRecord(results[i])
          /\ IsErrorRecord(results[i]) <=> outcomes[i].raised
          /\ ~LacksSchemeOrHost(urls[i]) => CallsFor(i) # <<>>
    /\ \A j \in 1..Len(results) :
          (outcomes[j].raised /\ outcomes[j].error = "capture"
             /\ \A i \in 1..Len(results) : i # j => ~outcomes[i].raised) =>
              /\ IsErrorRecord(results[j])
              /\ \A i \in 1..Len(results) : i # j => IsFullResult(results[i])

\* C6 witness: a returned batch of two whose first capture failed and whose
\* second URL was evaluated in full.
C6_Witness ==
    /\ pcBatch = "returned"
    /\ Len(urls) = 2
    /\ outcomes[1].raised /\ outcomes[1].error = "capture"
    /\ IsErrorRecord(results[1])
    /\ IsFullResult(results[2])

\* C7: evaluate_website fails fast on a URL that lacks a scheme or a host:
\* it raises ValueError before the capture, storage, analysis, report or
\* spreadsheet collaborator is invoked.
C7_InvalidUrlFailsFast ==
    \A i \in 1..Len(outcomes) :
        LacksSchemeOrHost(urls[i]) =>
            /\ outcomes[i].raised
            /\ outcomes[i].error = "ValueError"
            /\ CallsFor(i) = <<>>
            /\ outcomes[i].upload = "not_called"
            /\ outcomes[i].sheets = "not_called"

\* C7 witness: a URL without host was refused after another URL went
\* through every collaborator.
C7_Witness ==
    /\ Len(outcomes) = 2
    /\ urls[2] = <<"h", "t", "t", "p", ":", "/", "/">>
    /\ outcomes[2].raised /\ outcomes[2].error = "ValueError"
    /\ CallsFor(2) = <<>>
    /\ CallsFor(1) = <<"capture_website", "upload_screenshot", "analyze_design",
                       "generate_report", "log_evaluation">>

\* C7 witness: a URL without scheme, first of its batch.
C7_WitnessNoScheme ==
    /\ Len(outcomes) >= 1
    /\ urls[1] = <<"h">>
    /\ outcomes[1].error = "ValueError"
    /\ trail = <<>>

\* ---- C11, C17, C18, C20 ------------------------------------------------------

\* C11: image analysis never fails the evaluation: for any content of the
\* file at the screenshot path, a corrupt or unreadable image included,
\* analyze_design returns an analysis result (here with an AI answer that
\* analyze_design can combine, so that only the file is in question).
C11_AnalysisReturnsForAnyFile ==
    (AnalyzeDone /\ screenshot.kind # "missing" /\ AIUsable(response)) =>
        ~analysis.raised

\* The fraction a / b lies in [0, 1].
InUnitInterval(f) == f[2] > 0 /\ 0 <= f[1] /\ f[1] <= f[2]

\* The fractions f and g add up to 1.
AddUpToOne(f, g) ==
    f[2] > 0 /\ g[2] > 0 /\ f[1] * g[2] + g[1] * f[2] = f[2] * g[2]

\* C17: every layout descriptor of _analyze_layout, computed or default,
\* has content_density in [0,1] and whitespace_ratio = 1 - content_density.
C17_WhitespaceComplementsDensity ==
    (AnalyzeDone /\ ~analysis.raised) =>
        LET d == analysis.results["layout"].technical_data
        IN  /\ InUnitInterval(d.content_density)
            /\ AddUpToOne(d.content_density, d.whitespace_ratio)

\* C17, the computed descriptors alone.
C17_ComputedWhitespaceComplementsDensity ==
    (AnalyzeDone /\ ~analysis.raised /\ screenshot.kind = "image") =>
        LET d == analysis.results["layout"].technical_data
        IN  /\ InUnitInterval(d.content_density)
            /\ AddUpToOne(d.content_density, d.whitespace_ratio)

\* C18: every analysis result of analyze_design has exactly the five
\* categories, each with a score that is a number in [0,100], whatever
\* scores the AI classifier returned.
C18_FiveScoresInRange ==
    (AnalyzeDone /\ ~analysis.raised) =>
        /\ DOMAIN analysis.results = CategorySet
        /\ \A c \in CategorySet :
              /\ analysis.results[c].score.kind = "num"
              /\ 0 <= analysis.results[c].score.v
              /\ analysis.results[c].score.v <= 100

\* C18, the categories alone.
C18_ExactlyFiveCategories ==
    (AnalyzeDone /\ ~analysis.raised) =>
        /\ DOMAIN analysis.results = CategorySet
        /\ Cardinality(CategorySet) = 5

\* C20: for every final score and every score_ranges configuration,
\* get_score_category and the report's _get_score_category name the same
\* range.
C20_CategorisersAgree ==
    (EvaluatorDone /\ ReportDone /\ InBounds) =>
        /\ ~category.raised /\ ~report_category.raised
        /\ category.name = report_category.name

\* C20, the scores that some range holds.
C20_CategorisersAgreeOnMatches ==
    (EvaluatorDone /\ ReportDone /\ InBounds
       /\ Matching(score_ranges, score.v) # {}) =>
        /\ ~category.raised /\ ~report_category.raised
        /\ category.name = report_category.name

(***************************************************************************)
(* DesignAnalyzer._find_sections on its own                                *)
(***************************************************************************)

\* ---- inputs ---------------------------------------------------------------

\* The profile of test_find_sections.
TestProfile == <<5, 5, 5, 50, 50, 5, 5, 30, 30, 30, 5, 5>>

\* The longest profile of the exhaustive part.
MaxProfileLen == 5

\* Row means below, at and above the thresholds.
ProfileValues == {5, 10, 30, 50}

Thresholds == {10, 30}

Profiles ==
    UNION { [1..n -> ProfileValues] : n \in 0..MaxProfileLen } \cup {TestProfile}

InitSections ==
    /\ vertical_profile \in Profiles
    /\ section_threshold \in Thresholds
    /\ found_sections = <<>>
    /\ pcSections = "ready"
    /\ ScoreIdle /\ CatIdle /\ UrlIdle /\ AnalyzeIdle /\ BatchIdle /\ StepsIdle /\ CaptureIdle /\ RowIdle /\ PairIdle /\ MainIdle

FindSections ==
    /\ pcSections = "ready"
    /\ found_sections' = find_sections(vertical_profile, section_threshold)
    /\ pcSections' = "done"
    /\ UNCHANGED <<vertical_profile, section_threshold>>
    /\ UNCHANGED <<scoreVars, catVars, urlVars, analyzeVars, batchVars, stepVars, captureVars, rowVars, pairVars, mainVars>>

NextSections == FindSections

SpecSections == InitSections /\ [][NextSections]_vars

\* ---- C16 --------------------------------------------------------------------

\* Entry of the profile at Python index k.
At(k) == vertical_profile[k + 1]

ProfileLen == Len(vertical_profile)

\* The maximal runs of consecutive entries strictly below the threshold, as
\* <<first index, index after the run>>.
MaximalRuns ==
    { r \in (0..ProfileLen) \X (0..ProfileLen) :
        /\ r[1] < r[2]
        /\ \A k \in r[1]..(r[2] - 1) : At(k) < section_threshold
        /\ r[1] = 0 \/ At(r[1] - 1) >= section_threshold
        /\ r[2] = ProfileLen \/ At(r[2]) >= section_threshold }

\* C16: _find_sections returns, top to bottom, one (start, end) pair per
\* maximal run of entries strictly below the threshold: start is the run's
\* first index, end the index of the first entry at or above the threshold
\* after it, or the length of the profile; the pairs are disjoint with
\* 0 <= start < end <= length, and the test profile with threshold 10
\* gives at least 2 sections.
C16_OnePairPerMaximalRun ==
    pcSections = "done" =>
        /\ { found_sections[k] : k \in 1..Len(found_sections) } = MaximalRuns
        /\ Len(found_sections) = Cardinality(MaximalRuns)
        /\ \A k \in 1..Len(found_sections) :
              /\ 0 <= found_sections[k][1]
              /\ found_sections[k][1] < found_sections[k][2]
              /\ found_sections[k][2] <= ProfileLen
        /\ \A k \in 1..(Len(found_sections) - 1) :
              found_sections[k][2] < found_sections[k + 1][1]
        /\ (vertical_profile = TestProfile /\ section_threshold = 10) =>
              Len(found_sections) >= 2

\* C16 witness: the test profile, whose last section runs to the end.
C16_Witness ==
    /\ pcSections = "done"
    /\ vertical_profile = TestProfile
    /\ section_threshold = 10
    /\ found_sections = <<<<0, 3>>, <<5, 7>>, <<10, 12>>>>

\* C16 witness: an entry equal to the threshold ends a section.
C16_WitnessAtThreshold ==
    /\ pcSections = "done"
    /\ vertical_profile = <<5, 10, 5>>
    /\ section_threshold = 10
    /\ found_sections = <<<<0, 1>>, <<2, 3>>>>

\* ---- C12 - C15, C19 ----------------------------------------------------------

AllCalls ==
    <<"capture_website", "upload_screenshot", "analyze_design",
      "generate_report", "log_evaluation">>

Called(i, c) == \E k \in 1..Len(CallsFor(i)) : CallsFor(i)[k] = c

\* The clock when the evaluation of urls[i] began.
StartOf(i) == Len(SelectSeq(trail, LAMBDA t : t[1] < i))

\* C12: upload is best-effort: when upload is requested and the storage
\* collaborator fails, upload_screenshot returns None without raising,
\* evaluate_website goes on to the analysis, and a result it returns has
\* cloud_url = None; no evaluation fails because of the upload.
C12_UploadIsBestEffort ==
    \A i \in 1..Len(outcomes) :
        /\ outcomes[i].upload # "raised"
        /\ outcomes[i].error # "upload"
        /\ outcomes[i].upload = "none" =>
              /\ save_to_cloud
              /\ SubSeq(CallsFor(i), 1, 3) = SubSeq(AllCalls, 1, 3)
              /\ outcomes[i].raised =>
                    outcomes[i].error \in {"analysis", "TypeError", "report"}
              /\ ~outcomes[i].raised =>
                    /\ IsFullResult(results[i])
                    /\ results[i].cloud_url = "None"
                    /\ results[i].report_path = "report"
                    /\ Called(i, "generate_report")

\* C12 witness: the upload failed and the evaluation went through every
\* other collaborator and returned a result without cloud URL.
C12_Witness ==
    /\ Len(outcomes) >= 1
    /\ outcomes[1].upload = "none"
    /\ ~outcomes[1].raised
    /\ results[1].cloud_url = "None"
    /\ results[1].final_score = 8000
    /\ CallsFor(1) = AllCalls

\* C13: spreadsheet logging is non-fatal: when logging is requested and
\* writing the row fails, log_evaluation returns False without raising and
\* evaluate_website returns the complete result, the one it returns when
\* the row is written.
C13_LoggingIsNonFatal ==
    \A i \in 1..Len(outcomes) :
        /\ outcomes[i].sheets # "raised"
        /\ outcomes[i].error # "sheets"
        /\ outcomes[i].sheets = "failed" =>
              /\ save_to_sheets
              /\ ~outcomes[i].raised
              /\ IsFullResult(results[i])
              /\ results[i].report_path = "report"
              /\ CallsFor(i)[Len(CallsFor(i))] = "log_evaluation"
              /\ \E env \in Environments :
                    /\ env.sheets = "ok"
                    /\ LET r == evaluate_website(urls[i], save_to_cloud,
                                                 save_to_sheets, "open", env,
                                                 StartOf(i))
                       IN  ~r.raised /\ r.data = results[i]

\* C13 witness: the row was not written and the result is complete.
C13_Witness ==
    /\ Len(outcomes) >= 1
    /\ outcomes[1].sheets = "failed"
    /\ ~outcomes[1].raised
    /\ results[1].report_path = "report"
    /\ results[1].final_score = 7000

\* C14: a failure of generate_report is not swallowed: evaluate_website
\* raises, returns no result and never invokes the spreadsheet collaborator
\* for that URL; in a batch the URL's slot is an error record.
C14_ReportFailurePropagates ==
    \A i \in 1..Len(outcomes) :
        outcomes[i].report = "error" =>
            /\ outcomes[i].raised
            /\ outcomes[i].error = "report"
            /\ ~Called(i, "log_evaluation")
            /\ outcomes[i].sheets = "not_called"
            /\ CallsFor(i)[Len(CallsFor(i))] = "generate_report"
            /\ IsErrorRecord(results[i])
            /\ results[i].url = urls[i]

\* C14 witness: logging was requested, the report failed, and the slot is
\* an error record.
C14_Witness ==
    /\ Len(outcomes) >= 1
    /\ save_to_sheets
    /\ outcomes[1].report = "error"
    /\ IsErrorRecord(results[1])
    /\ results[1].error = "report"

\* C15: a capture failure is a hard failure: evaluate_website propagates it
\* and invokes none of upload, analysis, report and logging for that URL;
\* in a batch it gives an error record for that URL only.
C15_CaptureFailureIsHard ==
    \A i \in 1..Len(outcomes) :
        outcomes[i].capture = "error" =>
            /\ outcomes[i].raised
            /\ outcomes[i].error = "capture"
            /\ CallsFor(i) = <<"capture_website">>
            /\ outcomes[i].upload = "not_called"
            /\ outcomes[i].report = "not_called"
            /\ outcomes[i].sheets = "not_called"
            /\ IsErrorRecord(results[i])
            /\ results[i].url = urls[i]
            /\ \A j \in 1..Len(outcomes) :
                  (j # i /\ ~outcomes[j].raised) => IsFullResult(results[j])

\* C15 witness: with upload and logging requested, the second capture
\* failed after a first URL was evaluated in full.
C15_Witness ==
    /\ Len(outcomes) = 2
    /\ save_to_cloud /\ save_to_sheets
    /\ outcomes[2].capture = "error"
    /\ IsErrorRecord(results[2])
    /\ IsFullResult(results[1])
    /\ CallsFor(2) = <<"capture_website">>

\* C19: every evaluation result returned by evaluate_website has
\* final_score in [0,100].
C19_FinalScoreInRange ==
    \A i \in 1..Len(results) :
        IsFullResult(results[i]) =>
            /\ 0 <= results[i].final_score
            /\ results[i].final_score <= 10000

\* C19, the results whose category scores are all in [0,100].
C19_FinalScoreInRangeForScoresInRange ==
    \A i \in 1..Len(results) :
        (IsFullResult(results[i])
           /\ \A c \in CategorySet :
                 /\ 0 <= results[i].analysis_results[c].score.v
                 /\ results[i].analysis_results[c].score.v <= 100) =>
            /\ 0 <= results[i].final_score
            /\ results[i].final_score <= 10000

\* ---- C22, C25, C27 -----------------------------------------------------------

\* C22: the evaluation_time of a returned result is the total elapsed time
\* of the evaluation, measured after its last step (the report and, when
\* requested, the logging).  The clock ticks once per collaborator call.
C22_EvaluationTimeIsTotal ==
    \A i \in 1..Len(results) :
        IsFullResult(results[i]) =>
            results[i].evaluation_time = Len(CallsFor(i))

\* C22, what the code measures: the time up to the end of the analysis.
C22_EvaluationTimeStopsBeforeReport ==
    \A i \in 1..Len(results) :
        IsFullResult(results[i]) =>
            /\ CallsFor(i)[results[i].evaluation_time] = "analyze_design"
            /\ CallsFor(i)[results[i].evaluation_time + 1] = "generate_report"

\* The evaluation of urls[i] run again on the same screenshot, AI answer
\* and report outcome, with the flags cloud and sheets.
Rerun(i, cloud, sheets) ==
    evaluate_website(urls[i], cloud, sheets, "open",
                     [Cooperative EXCEPT !.file = outcomes[i].file,
                                         !.response = outcomes[i].response],
                     StartOf(i))

C27_CoverCategoryIsConfigured ==
    ReportDone =>
        /\ ~report_category.raised
        /\ report_category.name \in RangeNames(score_ranges)

\* C27, configurations that define both 'poor' and 'excellent'.
C27_CoverCategoryIsConfiguredWithPoorAndExcellent ==
    (ReportDone /\ {"poor", "excellent"} \subseteq RangeNames(score_ranges)) =>
        /\ ~report_category.raised
        /\ report_category.name \in RangeNames(score_ranges)


(***************************************************************************)
(* DesignAnalyzer.analyze_design, one analysis step at a time              *)
(***************************************************************************)

\* The four analysis steps of analyze_design, lines 51-67.
AnalysisSteps == {"ai", "colors", "layout", "typography"}

\* Mutant: the typography step reads what the layout step left behind, and
\* falls back to its default when the layout step has not run yet.
run_step_sharing(s, f, resp, before) ==
    CASE s = "ai" ->
            LET t == analyze_with_openai(f, resp)
            IN  IF t.raised
                THEN [raised |-> FALSE,
                      value |-> [json |-> "object", fields |-> get_default_ai_analysis]]
                ELSE t
      [] s = "colors" ->
            LET t == analyze_colors(Image_open(f).pil)
            IN  IF t.raised THEN [raised |-> FALSE, value |-> <<>>] ELSE t
      [] s = "layout" -> analyze_layout(cv2_imread(f))
      [] OTHER ->
            IF "layout" \in DOMAIN before
            THEN analyze_typography(cv2_imread(f))
            ELSE [raised |-> FALSE, value |-> TypographyDefault]

\* One step of analyze_design on the loaded screenshot: the AI step with
\* its except branch (lines 51-58), the colour step with its except branch
\* (lines 61-66), the layout step (line 67) and the typography step (line
\* 68).  before holds what the steps already run produced: each step takes
\* the screenshot alone and reads none of it.
run_step(s, f, resp, before) ==
    CASE s = "ai" ->
            LET t == analyze_with_openai(f, resp)
            IN  IF t.raised
                THEN [raised |-> FALSE,
                      value |-> [json |-> "object", fields |-> get_default_ai_analysis]]
                ELSE t
      [] s = "colors" ->
            LET t == analyze_colors(Image_open(f).pil)
            IN  IF t.raised THEN [raised |-> FALSE, value |-> <<>>] ELSE t
      [] s = "layout" -> analyze_layout(cv2_imread(f))
      [] OTHER -> analyze_typography(cv2_imread(f))

\* Lines 70-102: the results dict built from what the four steps produced.
\* An exception of a step propagates; ai_analysis.get raises when the AI
\* answer is no dict.
join_steps(done) ==
    IF done["layout"].raised \/ done["typography"].raised THEN [raised |-> TRUE]
    ELSE IF done["ai"].value.json # "object" THEN [raised |-> TRUE]
    ELSE [raised |-> FALSE,
          results |-> [c \in CategorySet |->
                         category_result(c, done["ai"].value.fields,
                             [t \in {"typography", "color", "layout"} |->
                                 CASE t = "typography" -> done["typography"].value
                                   [] t = "color"      -> done["colors"].value
                                   [] OTHER            -> done["layout"].value])]]

\* ---- inputs ---------------------------------------------------------------

\* Screenshots: the largest images whose first row is white, as a readable
\* file and as one cv2 cannot read, and the files that are no image.
StepFiles ==
    { f \in ScreenshotFiles :
        f.kind \in {"image", "cv_unreadable"} =>
            /\ Len(f.rows) = MaxRows
            /\ Len(f.rows[1]) = MaxWidth
            /\ \A x \in 1..MaxWidth : f.rows[1][x] = 255 }

StepResponses == BatchResponses \cup {[kind |-> "no_content"]}

InitSteps ==
    /\ step_screenshot \in StepFiles
    /\ step_response \in StepResponses
    /\ step_results = <<>>
    /\ step_order = <<>>
    /\ step_joined = [raised |-> FALSE]
    /\ pcSteps = "load"
    /\ ScoreIdle /\ CatIdle /\ UrlIdle /\ AnalyzeIdle /\ BatchIdle /\ SectionsIdle
    /\ CaptureIdle /\ RowIdle /\ PairIdle /\ MainIdle

\* Lines 47-48: cv2.imread and Image.open; Image.open raises on a file that
\* is no image, and analyze_design with it.
LoadImages ==
    /\ pcSteps = "load"
    /\ IF Image_open(step_screenshot).raised
       THEN pcSteps' = "done" /\ step_joined' = [raised |-> TRUE]
       ELSE pcSteps' = "steps" /\ UNCHANGED step_joined
    /\ UNCHANGED <<step_screenshot, step_response, step_results, step_order>>
    /\ UNCHANGED <<scoreVars, catVars, urlVars, analyzeVars, batchVars, sectionVars, captureVars, rowVars, pairVars, mainVars>>

\* A step that has not run yet runs, whatever steps ran before it.
RunStep(s) ==
    /\ pcSteps = "steps"
    /\ s \notin DOMAIN step_results
    /\ step_results' =
          [t \in DOMAIN step_results \cup {s} |->
              IF t = s
              THEN run_step(s, step_screenshot, step_response, step_results)
              ELSE step_results[t]]
    /\ step_order' = Append(step_order, s)
    /\ UNCHANGED <<step_screenshot, step_response, step_joined, pcSteps>>
    /\ UNCHANGED <<scoreVars, catVars, urlVars, analyzeVars, batchVars, sectionVars, captureVars, rowVars, pairVars, mainVars>>

RunAI == RunStep("ai")

RunColors == RunStep("colors")

RunLayout == RunStep("layout")

RunTypography == RunStep("typography")

\* The join: every step is over, the results are combined.
JoinSteps ==
    /\ pcSteps = "steps"
    /\ DOMAIN step_results = AnalysisSteps
    /\ step_joined' = join_steps(step_results)
    /\ pcSteps' = "done"
    /\ UNCHANGED <<step_screenshot, step_response, step_results, step_order>>
    /\ UNCHANGED <<scoreVars, catVars, urlVars, analyzeVars, batchVars, sectionVars, captureVars, rowVars, pairVars, mainVars>>

NextSteps ==
    \/ LoadImages
    \/ RunAI
    \/ RunColors
    \/ RunLayout
    \/ RunTypography
    \/ JoinSteps

SpecSteps == InitSteps /\ [][NextSteps]_vars

\* ---- C21 -------------------------------------------------------------------

\* What _calculate_final_score makes of an analysis: nothing when the
\* analysis raised, a TypeError on a score that is no number.
FinalOf(an) ==
    IF an.raised THEN [raised |-> TRUE, error |-> "analysis"]
    ELSE IF ~numeric_scores(an.results) THEN [raised |-> TRUE, error |-> "TypeError"]
    ELSE [raised |-> FALSE,
          value |-> calculate_final_score(TestWeights, plain_scores(an.results))]

\* The order of the steps in analyze_design.
SequentialOrder == <<"ai", "colors", "layout", "typography">>

SetupOutcomes == {"first", "fallback", "unavailable", "timeout_error"}

\* What driver.get, the wait for the body and the screenshot do.
PageOutcomes == {"ok", "error"}

\* ScreenshotCapture.setup_driver on the object cap = [driver, browsers]:
\* self.driver is assigned the browser that starts, whatever it held.
setup_driver(cap, setup) ==
    IF setup = "unavailable"
    THEN [driver |-> cap.driver, browsers |-> cap.browsers,
          raised |-> TRUE, created |-> FALSE]
    ELSE [driver |-> "open", browsers |-> cap.browsers + 1,
          raised |-> setup = "timeout_error", created |-> TRUE]

\* The rest of capture_website once the driver is there (lines 117-141).
capture_page(cap, created, page) ==
    [driver |-> cap.driver, browsers |-> cap.browsers,
     raised |-> page = "error", created |-> created]

\* Mutant: capture_website sets a driver up for every URL.
capture_website_always_set_up(cap, setup, page) ==
    LET s == setup_driver(cap, setup)
    IN  IF s.raised THEN s ELSE capture_page(s, TRUE, page)

\* ScreenshotCapture.capture_website on the object: `if not self.driver:
\* self.setup_driver()`, then the page; every exception is re-raised.
capture_website_on(cap, setup, page) ==
    IF cap.driver = "none"
    THEN LET s == setup_driver(cap, setup)
         IN  IF s.raised THEN s ELSE capture_page(s, TRUE, page)
    ELSE capture_page(cap, FALSE, page)

\* ScreenshotCapture.close_driver: `if self.driver: self.driver.quit();
\* self.driver = None`.
close_driver(cap) ==
    IF cap.driver # "none"
    THEN [driver |-> "none", browsers |-> cap.browsers - 1, quit |-> TRUE]
    ELSE [driver |-> cap.driver, browsers |-> cap.browsers, quit |-> FALSE]

\* ---- inputs ---------------------------------------------------------------

\* The longest sequence of captures and closes on one object.
MaxCaptureOps == 4

InitCapture ==
    /\ cap_driver = "none"
    /\ browsers = 0
    /\ cap_log = <<>>
    /\ pcCapture = "running"
    /\ ScoreIdle /\ CatIdle /\ UrlIdle /\ AnalyzeIdle /\ BatchIdle /\ SectionsIdle /\ StepsIdle /\ RowIdle /\ PairIdle /\ MainIdle

CaptureWebsite ==
    /\ pcCapture = "running"
    /\ Len(cap_log) < MaxCaptureOps
    /\ \E setup \in SetupOutcomes, page \in PageOutcomes :
          LET r == capture_website_on([driver |-> cap_driver, browsers |-> browsers],
                                      setup, page)
          IN  /\ cap_driver' = r.driver
              /\ browsers' = r.browsers
              /\ cap_log' = Append(cap_log,
                                   [op |-> "capture", before |-> cap_driver,
                                    after |-> r.driver, created |-> r.created,
                                    quit |-> FALSE, raised |-> r.raised])
    /\ UNCHANGED pcCapture
    /\ UNCHANGED <<scoreVars, catVars, urlVars, analyzeVars, batchVars, sectionVars, stepVars, rowVars, pairVars, mainVars>>

CloseDriver ==
    /\ pcCapture = "running"
    /\ Len(cap_log) < MaxCaptureOps
    /\ LET r == close_driver([driver |-> cap_driver, browsers |-> browsers])
       IN  /\ cap_driver' = r.driver
           /\ browsers' = r.browsers
           /\ cap_log' = Append(cap_log,
                                [op |-> "close", before |-> cap_driver,
                                 after |-> r.driver, created |-> FALSE,
                                 quit |-> r.quit, raised |-> FALSE])
    /\ UNCHANGED pcCapture
    /\ UNCHANGED <<scoreVars, catVars, urlVars, analyzeVars, batchVars, sectionVars, stepVars, rowVars, pairVars, mainVars>>

NextCapture == CaptureWebsite \/ CloseDriver

SpecCapture == InitCapture /\ [][NextCapture]_vars

\* ---- C26 -------------------------------------------------------------------

\* C26: at most one browser driver exists per ScreenshotCapture at any
\* time, over any sequence of captures and closes: capture_website creates
\* a driver only when there is none and reuses the one there is for every
\* later URL, also after a failed capture; close_driver quits it and resets
\* it to None, and does nothing when there is none.
C26_AtMostOneDriver ==
    /\ browsers \in {0, 1}
    /\ browsers = 1 <=> cap_driver = "open"
    /\ \A i \in 1..Len(cap_log) :
          LET e == cap_log[i]
          IN  /\ e.created => e.op = "capture" /\ e.before = "none"
              /\ (e.op = "capture" /\ e.before = "open") =>
                    ~e.created /\ e.after = "open"
              /\ e.op = "close" =>
                    /\ e.after = "none"
                    /\ e.quit <=> e.before = "open"

\* C26 witness: a capture creates the driver and fails on the page, the
\* next capture reuses the driver, a close quits it, a second close finds
\* none.
C26_Witness ==
    /\ Len(cap_log) = 4
    /\ cap_log[1].op = "capture" /\ cap_log[1].created /\ cap_log[1].raised
    /\ cap_log[2].op = "capture" /\ ~cap_log[2].created /\ ~cap_log[2].raised
    /\ cap_log[3].op = "close" /\ cap_log[3].quit
    /\ cap_log[4].op = "close" /\ ~cap_log[4].quit
    /\ browsers = 0


(***************************************************************************)
(* GoogleSheetsIntegration._prepare_row_data                               *)
(***************************************************************************)

\* Values of a dict and cells of a row carry their type: a str is a
\* sequence of characters, a number is in hundredths (scores of a category
\* in points), a time is an ISO timestamp.
Str(chars) == [kind |-> "str", v |-> chars]

EmptyStr == Str(<<>>)

Time(t) == [kind |-> "time", v |-> t]

\* evaluation_data.get(key, default)
get(d, key, default) == IF key \in DOMAIN d THEN d[key] ELSE default

\* The headers of _setup_headers, in order.
Headers ==
    << "Timestamp", "URL", "Domain", "Final Score", "Score Category",
       "Typography Score", "Color Score", "Layout Score", "Usability Score",
       "Modern Design Score", "Screenshot URL", "Report Path",
       "Evaluation Time (s)", "Typography Analysis", "Color Analysis",
       "Layout Analysis", "Usability Analysis", "Modern Design Analysis",
       "Top Recommendations", "Technical Summary" >>

\* _truncate_text(..., 1000), google_sheets_integration.py:181
MaxCellLength == 1000

\* str.replace('www.', ''): every occurrence, left to right.
RECURSIVE replace_www(_)
replace_www(chars) ==
    IF Len(chars) = 0 THEN <<>>
    ELSE IF Len(chars) >= 4 /\ SubSeq(chars, 1, 4) = <<"w", "w", "w", ".">>
    THEN replace_www(SubSeq(chars, 5, Len(chars)))
    ELSE <<chars[1]>> \o replace_www(Tail(chars))

\* GoogleSheetsIntegration._get_score_category: `score >= 90` is a
\* TypeError for None and for a str.
sheets_get_score_category(sc) ==
    IF sc.kind # "num" THEN [raised |-> TRUE, name |-> ""]
    ELSE [raised |-> FALSE,
          name |-> IF sc.v >= 9000 THEN "Excellent"
                   ELSE IF sc.v >= 8000 THEN "Very Good"
                   ELSE IF sc.v >= 7000 THEN "Good"
                   ELSE IF sc.v >= 6000 THEN "Fair"
                   ELSE "Poor"]

\* _truncate_text: len(text) is a TypeError for None and for a number.
truncate_text(text, max_length) ==
    IF text.kind # "str" THEN [raised |-> TRUE, value |-> EmptyStr]
    ELSE IF Len(text.v) <= max_length THEN [raised |-> FALSE, value |-> text]
    ELSE [raised |-> FALSE,
          value |-> Str(SubSeq(text.v, 1, max_length - 3) \o <<".", ".", ".">>)]

\* The categories of analysis_results in the order of the dict.
RECURSIVE items(_, _)
items(ar, i) ==
    IF i > Len(Categories) THEN <<>>
    ELSE (IF Categories[i] \in DOMAIN ar THEN <<Categories[i]>> ELSE <<>>)
         \o items(ar, i + 1)

\* str.title() of a category name.
title(c) ==
    CASE c = "typography"    -> "Typography"
      [] c = "color"         -> "Color"
      [] c = "layout"        -> "Layout"
      [] c = "usability"     -> "Usability"
      [] OTHER               -> "Modern_Design"

\* _get_top_recommendations: the first recommendation of each category
\* that has one, the first three of them joined.
get_top_recommendations(ar) ==
    LET cats == SelectSeq(items(ar, 1),
                          LAMBDA c : get(ar[c], "recommendations", <<>>) # <<>>)
        recs == [k \in 1..Len(cats) |-> <<title(cats[k]), ar[cats[k]].recommendations[1]>>]
    IN  [kind |-> "joined", v |-> SubSeq(recs, 1, Min(3, Len(recs)))]

\* The key metrics of one technical_data: of its first two items, those
\* whose value is an int or a float, formatted with two decimals.
key_metrics(td) ==
    LET firsts == SubSeq(td, 1, Min(2, Len(td)))
    IN  SelectSeq(firsts, LAMBDA kv : kv[2].kind = "num")

\* _prepare_technical_summary: one part per category with key metrics.
prepare_technical_summary(ar) ==
    LET cats == SelectSeq(items(ar, 1),
                          LAMBDA c : key_metrics(get(ar[c], "technical_data", <<>>)) # <<>>)
    IN  [kind |-> "joined",
         v |-> [k \in 1..Len(cats) |->
                   <<cats[k], key_metrics(ar[cats[k]].technical_data)>>]]

\* analysis_results.get(c, {}).get('score', 0)
score_of(ar, c) == get(get(ar, c, <<>>), "score", Num(0))

\* analysis_results.get(c, {}).get('analysis', '')
analysis_of(ar, c) == get(get(ar, c, <<>>), "analysis", EmptyStr)

\* Mutant: the categories are indexed, not looked up with defaults.
prepare_row_data_indexing(d, now) ==
    LET ar == get(d, "analysis_results", <<>>)
    IN  IF \E i \in 1..Len(Categories) :
              \/ Categories[i] \notin DOMAIN ar
              \/ {"score", "analysis"} \ DOMAIN ar[Categories[i]] # {}
        THEN [raised |-> TRUE, row |-> <<>>]
        ELSE [raised |-> FALSE,
              row |-> << get(d, "timestamp", Time(now)), get(d, "url", EmptyStr),
                         Str(replace_www(urlparse(get(d, "url", EmptyStr).v).netloc)),
                         get(d, "final_score", Num(0)),
                         [kind |-> "label",
                          v |-> sheets_get_score_category(get(d, "final_score", Num(0))).name] >>
                      \o [i \in 1..Len(Categories) |-> ar[Categories[i]].score]
                      \o << get(d, "cloud_url", EmptyStr), get(d, "report_path", EmptyStr),
                            get(d, "evaluation_time", Num(0)) >>
                      \o [i \in 1..Len(Categories) |-> ar[Categories[i]].analysis]
                      \o << get_top_recommendations(ar), prepare_technical_summary(ar) >>]

\* GoogleSheetsIntegration._prepare_row_data; now is datetime.now().
prepare_row_data(d, now) ==
    LET url_        == get(d, "url", EmptyStr)
        parsed      == urlparse(url_.v)
        domain      == Str(replace_www(parsed.netloc))
        timestamp   == get(d, "timestamp", Time(now))
        final       == get(d, "final_score", Num(0))
        score_cat   == sheets_get_score_category(final)
        ar          == get(d, "analysis_results", <<>>)
        scores      == [i \in 1..Len(Categories) |-> score_of(ar, Categories[i])]
        analyses    == [i \in 1..Len(Categories) |->
                           truncate_text(analysis_of(ar, Categories[i]), MaxCellLength)]
    IN  IF parsed.raised \/ score_cat.raised
           \/ \E i \in 1..Len(Categories) : analyses[i].raised
        THEN [raised |-> TRUE, row |-> <<>>]
        ELSE [raised |-> FALSE,
              row |-> << timestamp, url_, domain, final,
                         [kind |-> "label", v |-> score_cat.name] >>
                      \o scores
                      \o << get(d, "cloud_url", EmptyStr), get(d, "report_path", EmptyStr),
                            get(d, "evaluation_time", Num(0)) >>
                      \o [i \in 1..Len(Categories) |-> analyses[i].value]
                      \o << get_top_recommendations(ar), prepare_technical_summary(ar) >>]

\* ---- inputs ---------------------------------------------------------------

\* A str of n characters.
TextOfLength(n) == Str([i \in 1..n |-> "a"])

\* What analysis_results holds for one category: every key; no key; an
\* analysis longer than a cell; an analysis that is None.
CategoryShapes == {"full", "bare", "long", "none_analysis"}

CategoryData(shape) ==
    CASE shape = "full" ->
            [score |-> Num(90), analysis |-> TextOfLength(13),
             recommendations |-> <<"first", "second">>,
             technical_data |-> << <<"content_density", Num(50)>>,
                                   <<"image_dimensions", [kind |-> "list", v |-> 0]>>,
                                   <<"line_count", Num(0)>> >>]
      [] shape = "long" ->
            [score |-> Num(80), analysis |-> TextOfLength(MaxCellLength + 1),
             recommendations |-> <<>>,
             technical_data |-> << <<"dominant_colors", [kind |-> "list", v |-> 0]>> >>]
      [] shape = "none_analysis" ->
            [score |-> Num(70), analysis |-> NoneScore]
      [] OTHER -> <<>>

AnalysisResultsInputs ==
    { [c \in cs |-> CategoryData(shape)] :
          cs \in SUBSET CategorySet, shape \in CategoryShapes }

RowUrls ==
    { <<"h", "t", "t", "p", "s", ":", "/", "/", "w", "w", "w", ".", "g", "o", "o", "g", "l", "e", ".", "c", "o", "m">>,
      <<"h", "t", "t", "p", ":", "/", "/", "e", "x", "a", "m", "p", "l", "e", ".", "c", "o", "m">>,
      <<"h", "t", "t", "p", ":", "/", "/", "[">> }

RowKeys ==
    {"url", "timestamp", "final_score", "analysis_results", "cloud_url",
     "report_path", "evaluation_time"}

\* The evaluation data of evaluate_website and of the test, with every key.
FullEvaluationData(u, fs, cloud, ar) ==
    [url |-> Str(u), timestamp |-> Time(1), final_score |-> fs,
     analysis_results |-> ar, cloud_url |-> cloud,
     report_path |-> Str(<<"r", ".", "p", "d", "f">>),
     evaluation_time |-> Num(4520)]

\* Evaluation data: every key, one key missing, or no key at all.
RowInputs ==
    { [k \in keys |-> FullEvaluationData(u, fs, cloud, ar)[k]] :
          keys \in {RowKeys} \cup {RowKeys \ {k} : k \in RowKeys} \cup {{}},
          u \in RowUrls,
          fs \in {Num(8550), Num(9000), Num(5999), NoneScore},
          cloud \in {Str(<<"s", "3">>), NoneScore},
          ar \in AnalysisResultsInputs }

\* datetime.now() of the model.
RowNow == 2

InitRow ==
    /\ evaluation_data \in RowInputs
    /\ row_data = [raised |-> FALSE, row |-> <<>>]
    /\ pcRow = "ready"
    /\ ScoreIdle /\ CatIdle /\ UrlIdle /\ AnalyzeIdle /\ BatchIdle /\ SectionsIdle /\ StepsIdle
    /\ CaptureIdle /\ PairIdle /\ MainIdle

PrepareRowData ==
    /\ pcRow = "ready"
    /\ row_data' = prepare_row_data(evaluation_data, RowNow)
    /\ pcRow' = "done"
    /\ UNCHANGED evaluation_data
    /\ UNCHANGED <<scoreVars, catVars, urlVars, analyzeVars, batchVars, sectionVars, stepVars, captureVars, pairVars, mainVars>>

NextRow == PrepareRowData

SpecRow == InitRow /\ [][NextRow]_vars


\* ---- C24 -------------------------------------------------------------------

RowDone == pcRow = "done"

\* The values the evaluation data holds have the types evaluate_website
\* gives them: a URL urlparse accepts, a number as final score, a str as
\* analysis of every category that has one.
RowWellTyped(d) ==
    LET ar == get(d, "analysis_results", <<>>)
    IN  /\ ~urlparse(get(d, "url", EmptyStr).v).raised
        /\ get(d, "final_score", Num(0)).kind = "num"
        /\ \A c \in DOMAIN ar : analysis_of(ar, c).kind = "str"

\* The header of the score column and of the analysis column of a category.
ScoreHeader(c) ==
    CASE c = "typography" -> "Typography Score"
      [] c = "color"      -> "Color Score"
      [] c = "layout"     -> "Layout Score"
      [] c = "usability"  -> "Usability Score"
      [] OTHER            -> "Modern Design Score"

AnalysisHeader(c) ==
    CASE c = "typography" -> "Typography Analysis"
      [] c = "color"      -> "Color Analysis"
      [] c = "layout"     -> "Layout Analysis"
      [] c = "usability"  -> "Usability Analysis"
      [] OTHER            -> "Modern Design Analysis"

\* The host of the URL without "www.".
ExpectedDomain(d) ==
    IF "url" \notin DOMAIN d THEN <<>>
    ELSE IF d.url.v[5] = "s" THEN <<"g", "o", "o", "g", "l", "e", ".", "c", "o", "m">>
    ELSE <<"e", "x", "a", "m", "p", "l", "e", ".", "c", "o", "m">>

\* C24: _prepare_row_data returns a row of exactly 20 values aligned with
\* the 20 header columns: position 0 the timestamp, 1 the URL, 2 the domain,
\* 3 the final score, 5-9 the five category scores; a category absent from
\* the analysis results is written with score 0 and empty analysis instead
\* of raising.  (Positions are 0-based in the claim, 1-based here.)
C24_RowHasTwentyAlignedValues ==
    RowDone =>
        LET d   == evaluation_data
            ar  == get(d, "analysis_results", <<>>)
            row == row_data.row
        IN  /\ RowWellTyped(d) => ~row_data.raised
            /\ ~row_data.raised =>
                  /\ Len(row) = 20 /\ Len(Headers) = 20
                  /\ Headers[1] = "Timestamp"
                  /\ row[1] = IF "timestamp" \in DOMAIN d THEN d.timestamp ELSE Time(RowNow)
                  /\ Headers[2] = "URL"
                  /\ row[2] = IF "url" \in DOMAIN d THEN d.url ELSE EmptyStr
                  /\ Headers[3] = "Domain"
                  /\ row[3] = Str(ExpectedDomain(d))
                  /\ Headers[4] = "Final Score"
                  /\ row[4] = IF "final_score" \in DOMAIN d THEN d.final_score ELSE Num(0)
                  /\ \A i \in 1..Len(Categories) :
                        LET c == Categories[i]
                        IN  /\ Headers[5 + i] = ScoreHeader(c)
                            /\ Headers[13 + i] = AnalysisHeader(c)
                            /\ (c \in DOMAIN ar /\ "score" \in DOMAIN ar[c]) =>
                                  row[5 + i] = ar[c].score
                            /\ c \notin DOMAIN ar =>
                                  /\ row[5 + i] = Num(0)
                                  /\ row[13 + i] = EmptyStr

\* C24 witness: the data of test_prepare_row_data, with typography and
\* color alone: a row of 20 values, the score of layout 0 and its analysis
\* empty.
C24_Witness ==
    /\ RowDone
    /\ ~row_data.raised
    /\ DOMAIN evaluation_data = RowKeys \ {"report_path"}
    /\ DOMAIN evaluation_data.analysis_results = {"typography", "color"}
    /\ Len(row_data.row) = 20
    /\ row_data.row[4] = Num(8550)
    /\ row_data.row[6] = Num(90)
    /\ row_data.row[8] = Num(0)
    /\ row_data.row[16] = EmptyStr


(***************************************************************************)
(* analyze_design and _calculate_final_score on two screenshots            *)
(***************************************************************************)

\* evaluate_website, lines 111-114: the analysis of the screenshot and the
\* final score with the weights w; a TypeError on a score that is no number.
analyze_and_score(w, f, resp) ==
    LET an == analyze_design(f, resp)
    IN  IF an.raised THEN [raised |-> TRUE, error |-> "analysis"]
        ELSE IF ~numeric_scores(an.results)
        THEN [raised |-> TRUE, error |-> "TypeError"]
        ELSE [raised |-> FALSE, scores |-> plain_scores(an.results),
              value |-> calculate_final_score(w, plain_scores(an.results))]

\* ---- inputs ---------------------------------------------------------------

\* Screenshots: two images, a file PIL reads and cv2 does not, a truncated
\* image, a file that is no image.
PairFiles ==
    BatchFiles
    \cup { [kind |-> "image", rows |-> <<<<255, 255, 255>>, <<0, 0, 0>>, <<128, 128, 128>>>>],
           [kind |-> "cv_unreadable", rows |-> <<<<0, 255>>, <<0, 255>>>>],
           [kind |-> "truncated"] }

InitPair ==
    /\ pair_files \in PairFiles \X PairFiles
    /\ pair_response \in StepResponses
    /\ pair_weights \in WeightConfigs
    /\ pair_scores = <<>>
    /\ pcPair = "ready"
    /\ ScoreIdle /\ CatIdle /\ UrlIdle /\ AnalyzeIdle /\ BatchIdle /\ SectionsIdle /\ StepsIdle
    /\ CaptureIdle /\ RowIdle /\ MainIdle

\* The two evaluations, each from its analysis to its final score.
EvaluatePair ==
    /\ pcPair = "ready"
    /\ pair_scores' = [i \in 1..2 |->
                          analyze_and_score(pair_weights, pair_files[i], pair_response)]
    /\ pcPair' = "done"
    /\ UNCHANGED <<pair_files, pair_response, pair_weights>>
    /\ UNCHANGED <<scoreVars, catVars, urlVars, analyzeVars, batchVars, sectionVars, stepVars, captureVars, rowVars, mainVars>>

NextPair == EvaluatePair

SpecPair == InitPair /\ [][NextPair]_vars

\* ---- C28 -------------------------------------------------------------------

PairDone == pcPair = "done"

\* The sum of the weights of the five categories, in thousandths.
RECURSIVE WeightSum(_, _)
WeightSum(w, i) ==
    IF i > Len(w) THEN 0
    ELSE (IF w[i].category \in CategorySet THEN w[i].weight ELSE 0)
         + WeightSum(w, i + 1)

\* The two screenshots differ and both are images PIL opens.
TwoImages == pair_files[1] # pair_files[2] /\ \A i \in 1..2 : Opens(pair_files[i])

\* C28: category scores and final score depend on the AI output and the
\* weights alone, never on the technical metrics: two evaluations with the
\* same AI output and weights and different images have equal final scores,
\* and when the AI classifier fails the final score is 70 times the sum of
\* the weights of the five categories, rounded to 2 decimals.
C28_ScoresDependOnAIOnly ==
    (PairDone /\ TwoImages) =>
        /\ pair_scores[1] = pair_scores[2]
        /\ (AIRaises(pair_response) \/ AINotAnObject(pair_response)) =>
              \A i \in 1..2 :
                  /\ ~pair_scores[i].raised
                  /\ pair_scores[i].value
                        = round2(DefaultScore * WeightSum(pair_weights, 1))

\* C28 without the AI answers that parse to no object: equal scores for
\* different images, and the scores of the fixed default when the request,
\* the provider or the parsing fails.
C28_ScoresDependOnAIOnlyWhenCombinable ==
    (PairDone /\ TwoImages) =>
        /\ pair_scores[1] = pair_scores[2]
        /\ AIRaises(pair_response) =>
              \A i \in 1..2 :
                  /\ ~pair_scores[i].raised
                  /\ pair_scores[i].value
                        = round2(DefaultScore * WeightSum(pair_weights, 1))


(***************************************************************************)
(* main.py: main                                                           *)
(***************************************************************************)

\* validate_url of main.py: as the evaluator's, with a bare except.
main_validate_url(u) == validate_url(u)

\* `if not args.url and not args.batch` and `if args.url and args.batch`:
\* parser.error prints the usage and raises SystemExit(2).
usage_error(a) ==
    \/ a.url = <<>> /\ a.batch.kind = "none"
    \/ a.url # <<>> /\ a.batch.kind # "none"

\* `[line.strip() for line in f if line.strip()]`: the lines that are not
\* blank.
read_lines(lines) == SelectSeq(lines, LAMBDA l : l # <<>>)

\* The loop that keeps the URLs validate_url accepts.
filter_valid(lines) == SelectSeq(lines, LAMBDA l : main_validate_url(l))

\* print_batch_results: the results with a final score, those with an
\* error, and all of them.
print_batch_results(res) ==
    [successful |-> Len(SelectSeq(res, LAMBDA r : "final_score" \in DOMAIN r)),
     failed     |-> Len(SelectSeq(res, LAMBDA r : "error" \in DOMAIN r)),
     total      |-> Len(res)]

\* Mutant: a failed evaluation of the only URL is reported as a success.
single_return_lenient(raised) == 0

\* The single-URL branch: `return 1` in the except branch, else the
\* `return 0` at the end of the try.
single_return(raised) == IF raised THEN 1 ELSE 0

\* Mutant: a batch with a failed URL ends with 1.
batch_return_strict(res) ==
    IF \E i \in 1..Len(res) : "error" \in DOMAIN res[i] THEN 1 ELSE 0

\* The batch branch once batch_evaluate and print_batch_results are over:
\* the `return 0` at the end of the try, whatever the results are.
batch_return(res) == 0

\* Mutant: the driver is closed only where main ends well.
finally_only_on_success(bound, drv, ret) ==
    IF bound /\ ret = 0
    THEN [driver |-> close_driver([driver |-> drv, browsers |-> IF drv = "open" THEN 1 ELSE 0]).driver, calls |-> 1]
    ELSE [driver |-> drv, calls |-> 0]

\* The finally clause: `if 'evaluator' in locals():` close_driver, whatever
\* value ret is being returned.
finally_clause(bound, drv, ret) ==
    IF bound
    THEN [driver |-> close_driver([driver |-> drv, browsers |-> IF drv = "open" THEN 1 ELSE 0]).driver, calls |-> 1]
    ELSE [driver |-> drv, calls |-> 0]

\* ---- inputs ---------------------------------------------------------------

\* The URL argument: none, one with scheme and host, one without.
MainUrls == {<<>>} \cup BatchUrls

\* The lines of a batch file: URLs and blank lines.
BatchLines == UNION { [1..n -> BatchUrls \cup {<<>>}] : n \in 0..MaxBatch }

\* --batch: not given, a path that does not exist, a file that cannot be
\* read, a file with lines.
BatchArgs ==
    { [kind |-> k, lines |-> <<>>] : k \in {"none", "missing", "unreadable"} }
    \cup { [kind |-> "file", lines |-> l] : l \in BatchLines }

\* --config: no such file, a file that is no JSON, a configuration without
\* the API key in the environment, a configuration that loads.
ConfigArgs == {"missing", "malformed", "no_api_key", "ok"}

\* What the collaborators of one evaluation do.
MainEnvironments ==
    { Cooperative,
      [Cooperative EXCEPT !.setup = "error"],
      [Cooperative EXCEPT !.page = "error"],
      [Cooperative EXCEPT !.file = [kind |-> "corrupt"]],
      [Cooperative EXCEPT !.report = "error"],
      [Cooperative EXCEPT !.sheets = "append_error"] }

InitMain ==
    /\ args \in [url : MainUrls, batch : BatchArgs, config : ConfigArgs,
                 no_cloud : BOOLEAN, no_sheets : BOOLEAN]
    /\ evaluator = FALSE
    /\ main_driver = "none"
    /\ valid_urls = <<>>
    /\ main_results = <<>>
    /\ tally = [successful |-> 0, failed |-> 0, total |-> 0]
    /\ interrupted = FALSE
    /\ close_calls = 0
    /\ pending = -1
    /\ exit_code = -1
    /\ pcMain = "start"
    /\ ScoreIdle /\ CatIdle /\ UrlIdle /\ AnalyzeIdle /\ BatchIdle /\ SectionsIdle /\ StepsIdle
    /\ CaptureIdle /\ RowIdle /\ PairIdle

\* The other parts, which main leaves alone.
NotMain ==
    UNCHANGED <<scoreVars, catVars, urlVars, analyzeVars, batchVars, sectionVars,
                stepVars, captureVars, rowVars, pairVars>>

\* A return statement inside the try: the finally clause runs next.
Return(code) == pending' = code /\ pcMain' = "finally"

\* parse_args and the two checks of the arguments (lines 83-90).
ParseArgs ==
    /\ pcMain = "start"
    /\ IF usage_error(args)
       THEN exit_code' = 2 /\ pcMain' = "exited"
       ELSE pcMain' = "init" /\ UNCHANGED exit_code
    /\ UNCHANGED <<args, evaluator, main_driver, valid_urls, main_results, tally,
                   interrupted, close_calls, pending>>
    /\ NotMain

\* Lines 96-101: the configuration file must exist; WebsiteEvaluator raises
\* on a file that is no JSON and without API key, which the outer
\* `except Exception` turns into 1.
Construct ==
    /\ pcMain = "init"
    /\ IF args.config = "ok"
       THEN evaluator' = TRUE /\ pcMain' = "dispatch" /\ UNCHANGED pending
       ELSE Return(1) /\ UNCHANGED evaluator
    /\ UNCHANGED <<args, main_driver, valid_urls, main_results, tally, interrupted,
                   close_calls, exit_code>>
    /\ NotMain

\* Lines 113-116: the URL of a single evaluation is validated.
ValidateSingle ==
    /\ pcMain = "dispatch"
    /\ args.url # <<>>
    /\ IF main_validate_url(args.url)
       THEN pcMain' = "single" /\ UNCHANGED pending
       ELSE Return(1)
    /\ UNCHANGED <<args, evaluator, main_driver, valid_urls, main_results, tally,
                   interrupted, close_calls, exit_code>>
    /\ NotMain

\* Lines 120-137: evaluate_website and print_results in a try.
EvaluateSingle ==
    /\ pcMain = "single"
    /\ \E env \in MainEnvironments :
          LET r == evaluate_website(args.url, ~args.no_cloud, ~args.no_sheets,
                                    main_driver, env, 0)
          IN  /\ main_driver' = r.driver
              /\ main_results' = batch_append(main_results, args.url, r, Len(r.calls))
              /\ Return(single_return(r.raised))
    /\ UNCHANGED <<args, evaluator, valid_urls, tally, interrupted, close_calls,
                   exit_code>>
    /\ NotMain

\* Lines 140-164: the batch file is read and its URLs are validated.
ReadBatch ==
    /\ pcMain = "dispatch"
    /\ args.url = <<>>
    /\ LET found == filter_valid(read_lines(args.batch.lines))
       IN  IF args.batch.kind # "file" \/ found = <<>>
           THEN Return(1) /\ UNCHANGED valid_urls
           ELSE valid_urls' = found /\ pcMain' = "batch" /\ UNCHANGED pending
    /\ UNCHANGED <<args, evaluator, main_driver, main_results, tally, interrupted,
                   close_calls, exit_code>>
    /\ NotMain

\* One iteration of the loop of batch_evaluate, called at line 169.
EvaluateNext ==
    /\ pcMain = "batch"
    /\ Len(main_results) < Len(valid_urls)
    /\ \E env \in MainEnvironments :
          LET u == valid_urls[Len(main_results) + 1]
              r == evaluate_website(u, ~args.no_cloud, ~args.no_sheets,
                                    main_driver, env, 0)
          IN  /\ main_driver' = r.driver
              /\ main_results' = batch_append(main_results, u, r, Len(r.calls))
    /\ UNCHANGED <<args, evaluator, valid_urls, tally, interrupted, close_calls,
                   pending, exit_code, pcMain>>
    /\ NotMain

\* Lines 175-182: batch_evaluate is over, print_batch_results, `return 0`.
PrintBatchResults ==
    /\ pcMain = "batch"
    /\ Len(main_results) = Len(valid_urls)
    /\ tally' = print_batch_results(main_results)
    /\ Return(batch_return(main_results))
    /\ UNCHANGED <<args, evaluator, main_driver, valid_urls, main_results,
                   interrupted, close_calls, exit_code>>
    /\ NotMain

\* Lines 184-186: the user interrupts inside the try, before or after the
\* evaluator is there; during an evaluation the capture may have set the
\* driver up already.
KeyboardInterrupt ==
    /\ pcMain \in {"init", "dispatch", "single", "batch"}
    /\ interrupted' = TRUE
    /\ main_driver' \in IF pcMain \in {"single", "batch"}
                        THEN {main_driver, "open"} ELSE {main_driver}
    /\ Return(1)
    /\ UNCHANGED <<args, evaluator, valid_urls, main_results, tally, close_calls,
                   exit_code>>
    /\ NotMain

\* Lines 190-194: the finally clause, then main returns.
Finally ==
    /\ pcMain = "finally"
    /\ LET f == finally_clause(evaluator, main_driver, pending)
       IN  /\ main_driver' = f.driver
           /\ close_calls' = close_calls + f.calls
    /\ exit_code' = pending
    /\ pcMain' = "returned"
    /\ UNCHANGED <<args, evaluator, valid_urls, main_results, tally, interrupted,
                   pending>>
    /\ NotMain

NextMain ==
    \/ ParseArgs
    \/ Construct
    \/ ValidateSingle
    \/ EvaluateSingle
    \/ ReadBatch
    \/ EvaluateNext
    \/ PrintBatchResults
    \/ KeyboardInterrupt
    \/ Finally

SpecMain == InitMain /\ [][NextMain]_vars


\* ---- C23, C29, C30 -----------------------------------------------------------

MainReturned == pcMain = "returned"

SingleMode == args.url # <<>>

BatchMode == args.url = <<>> /\ args.batch.kind # "none"

\* The URLs of the batch file that are valid.
ValidLines == filter_valid(read_lines(args.batch.lines))

\* Every evaluation that was asked for was made and gave a full result.
AllSucceeded ==
    /\ ~interrupted
    /\ args.config = "ok"
    /\ \/ SingleMode /\ Len(main_results) = 1
       \/ BatchMode /\ Len(valid_urls) >= 1 /\ Len(main_results) = Len(valid_urls)
    /\ \A i \in 1..Len(main_results) : IsFullResult(main_results[i])

\* C23: main returns 1 on every validation or fatal error - an invalid
\* single URL, a configuration file that is missing or malformed, a batch
\* file that is missing or unreadable, a batch file without a valid URL, an
\* exception during a single-URL evaluation, a user interrupt - and 0 when
\* the evaluations asked for all succeed.
C23_ExitCodes ==
    MainReturned =>
        /\ exit_code \in {0, 1}
        /\ args.config # "ok" => exit_code = 1
        /\ (SingleMode /\ ~main_validate_url(args.url)) => exit_code = 1
        /\ (BatchMode /\ args.batch.kind \in {"missing", "unreadable"}) => exit_code = 1
        /\ (BatchMode /\ ValidLines = <<>>) => exit_code = 1
        /\ (SingleMode /\ \E i \in 1..Len(main_results) : IsErrorRecord(main_results[i]))
              => exit_code = 1
        /\ interrupted => exit_code = 1
        /\ AllSucceeded => exit_code = 0

\* C23 witness: the evaluation of a single valid URL raised after the
\* capture, and main returned 1.
C23_Witness ==
    /\ MainReturned
    /\ SingleMode /\ main_validate_url(args.url) /\ args.config = "ok"
    /\ ~interrupted
    /\ Len(main_results) = 1 /\ IsErrorRecord(main_results[1])
    /\ main_results[1].error = "report"
    /\ exit_code = 1

\* C23, the other side: a batch of evaluations that all succeeded, and 0.
C23_WitnessSuccess ==
    /\ MainReturned
    /\ BatchMode /\ AllSucceeded /\ Len(main_results) = MaxBatch
    /\ exit_code = 0

\* The command line names neither a URL nor a batch file, or both: the
\* process ends with the usage error of argparse, code 2, and main does not
\* return.
UsageErrorExitsWithTwo ==
    /\ pcMain = "exited" <=> (usage_error(args) /\ pcMain # "start")
    /\ pcMain = "exited" => exit_code = 2 /\ ~evaluator /\ close_calls = 0

\* C29: in batch mode, once the batch file has given at least one valid
\* URL, main returns 0 however many of the URL evaluations failed, even
\* all: the failures are error records in the tally, where successful +
\* failed = total.  (A user interrupt is the case of C23.)
C29_BatchReturnsZero ==
    (MainReturned /\ BatchMode /\ Len(valid_urls) >= 1 /\ ~interrupted) =>
        /\ exit_code = 0
        /\ Len(main_results) = Len(valid_urls)
        /\ \A i \in 1..Len(main_results) :
              IsFullResult(main_results[i]) \/ IsErrorRecord(main_results[i])
        /\ tally.total = Len(valid_urls)
        /\ tally.successful + tally.failed = tally.total
        /\ tally.failed
              = Cardinality({i \in 1..Len(main_results) : IsErrorRecord(main_results[i])})

\* C29 witness: every URL of the batch failed and main returned 0.
C29_Witness ==
    /\ MainReturned /\ BatchMode /\ ~interrupted
    /\ Len(valid_urls) = MaxBatch
    /\ tally = [successful |-> 0, failed |-> MaxBatch, total |-> MaxBatch]
    /\ exit_code = 0

\* C30: whenever main has constructed an evaluator, close_driver is called
\* exactly once before main returns, on every exit path (success,
\* validation error after the construction, evaluation error, user
\* interrupt during a single or a batch evaluation), and no browser driver
\* is left open.
C30_DriverClosedOnce ==
    /\ close_calls <= 1
    /\ ~evaluator => close_calls = 0 /\ main_driver = "none"
    /\ MainReturned =>
          /\ evaluator => close_calls = 1
          /\ main_driver = "none"

\* C30 witness: the user interrupts a batch after the first URL was
\* evaluated in full, with the driver open; main returns 1 with the driver
\* closed once.
C30_Witness ==
    /\ MainReturned /\ BatchMode /\ interrupted /\ evaluator
    /\ Len(main_results) >= 1 /\ Len(main_results) < Len(valid_urls)
    /\ IsFullResult(main_results[1])
    /\ close_calls = 1 /\ main_driver = "none"
    /\ exit_code = 1

\* C30, another path: a validation error after the construction.
C30_WitnessInvalidUrl ==
    /\ MainReturned /\ SingleMode /\ ~main_validate_url(args.url) /\ ~interrupted
    /\ evaluator /\ close_calls = 1

====
